---- MODULE Spec2Model ----
(***************************************************************************)
(* Model of the realistic backtest simulator (src/realistic_backtest.py)   *)
(* and of the centralized strategy rules (src/trading_strategies.py).      *)
(*                                                                         *)
(* Numbers.  Prices, ATR and cash are integers.  The code multiplies by    *)
(* decimal factors (0.8, 1.5, 1.01, 0.02, 0.95 ...); the model computes     *)
(* the same quantities in exact integer arithmetic: a factor k/10 times    *)
(* an ATR is (k * atr) \div 10, which is exact because every ATR drawn is  *)
(* a multiple of 10, a tolerance test  low <= R1 * 1.01  is                *)
(* 100 * low <= 101 * R1, and int(x / y) of positive operands is \div.     *)
(* NaN is a distinguished value; every comparison with it is FALSE and     *)
(* every arithmetic result on it is NaN, as in pandas/IEEE.                *)
(*                                                                         *)
(* Two passes.  run_realistic_backtest first calls                         *)
(* generate_realistic_signals over all bars (pass 1: entries/exits flags)  *)
(* and then walks the same bars again (pass 2: the portfolio).  Pass 1 at  *)
(* bar i reads bars <= i only and pass 2 at bar i reads entries[i],        *)
(* exits[i] and bar i only, so the model advances both passes one bar at   *)
(* a time in a single action; the bar series is drawn bar by bar.          *)
(***************************************************************************)
EXTENDS Integers, Sequences, FiniteSets, TLC

VARIABLES
    strategy_type,      \* strategy_name.lower() of this run
    initial_cash,       \* initial_cash argument
    pc,                 \* "loop" | "raised" | "done"
    i,                  \* number of bars processed so far
    row,                \* the bar processed last (df.iloc[i-1]); NoRow before
    df_columns,         \* the columns of the caller's DataFrame df
    \* ---- generate_realistic_signals (pass 1) ----
    sig_position_open,  \* position_open of generate_realistic_signals
    days_held,          \* days_held of generate_realistic_signals
    entry_close,        \* df['close'].iloc[i - days_held]
    triggered_level,    \* df.iloc[i - days_held]['triggered_level']
    entries_i,          \* entries.iloc[i] of the bar processed last
    exits_i,            \* exits.iloc[i] of the bar processed last
    chk,                \* sl_price/tp_price/max_days/days_held pass 1 tested on this bar
    exit_branch,        \* which branch of lines 165-177 set exits.iloc[i]
    last_flag,          \* the flag set last in entries/exits: "entry", "exit"; "none" before
    flag_balance,       \* entries.sum() - exits.sum() over the bars processed
    \* ---- run_realistic_backtest (pass 2) ----
    cash,
    shares_held,
    position_open,
    entry_price,
    entry_date,
    entry_level,        \* entry_level of the entry attempted last (printed only)
    sl_price,
    tp_price,
    trade_count,        \* len(trade_log)
    trade_pnl,          \* sum of the pnl of the records of trade_log
    appended,           \* the record appended to trade_log on the bar processed last
    pv_len,             \* len(portfolio_value)
    pv_last,            \* portfolio_value[-1]
    event,              \* what pass 2 did on the bar processed last
    cash_before,        \* cash at the start of the bar processed last
    touched,            \* a bar since the entry reached the position's sl_price or tp_price
    result,             \* the returned tuple, once pc = "done"
    \* ---- LiveSignalStrategy (trading_strategies.py) ----
    latest,             \* df.iloc[-1] handed to the live generator; NoRow if none
    live,               \* the signal record the generator returned; NoSignal before
    \* ---- the two position sizers, applied to the same arguments ----
    sz_args,            \* [cash, entry_price, stop_loss]; NoArgs if none
    sz_realistic,       \* value of calculate_realistic_position_size; NotSized before
    sz_live,            \* value of TradingStrategy.calculate_position_size
    \* ---- a run of generate_realistic_signals on an already processed df ----
    rp_strategy_name,   \* strategy_name of that run
    rp_col,             \* the column df['triggered_level'] of that df, by bar index
    rp_close,           \* the column df['close'] of the bars seen so far, by bar index
    rp_position_open,   \* position_open of that run
    rp_days_held,       \* days_held of that run
    rp_entries_i,       \* entries.iloc[i] of that run on the bar processed last
    rp_exits_i,         \* exits.iloc[i] of that run on the bar processed last
    rp_chk,             \* what that run tested on the bar processed last
    rp_entry,           \* index, level and close that run wrote on its last entry bar
    rp_lookup,          \* entry_idx and what that run read there on the bar processed last
    \* ---- optimize.py: trials run by study.optimize(..., n_jobs=10) ----
    opt_cls,            \* the class attributes n_sl_r1, n_tp_r1, n_days_r1 of Breakout
    opt_pc,             \* per trial: "idle" | "suggest" | "setattr" | "run" | "done"
    opt_params,         \* per trial: the params dict of objective
    opt_key,            \* per trial: how many items of params the setattr loop has set
    opt_bars,           \* per trial: how many bars bt.run() has processed
    opt_read,           \* per trial: the multiples get_params read last
    \* ---- a live generator called on two series ----
    st_gen,             \* the generator called: the 'strategy' of its records
    st_df,              \* the two series (sequences of bars) handed to it
    st_rec,             \* the record returned for each series; NoSignal before
    \* ---- trade statistics of run_realistic_backtest ----
    tl_pnl,             \* the 'pnl' entries of trade_log, in order
    tl_stats,           \* win_rate and profit_factor; NoStats before
    \* ---- backtest.run ----
    run_strategy,       \* the strategy argument
    run_best,           \* the params file: whether it exists, the keys it holds
    strategy_cls,       \* the local strategy_cls; "None" until assigned
    cls_attrs,          \* the level-1 class attributes of each strategy class
    run_pc,             \* "idle", "start", "loaded", "done"
    run_outcome,        \* what run did: "none", "returned" or the exception
    \* ---- fetch_data.load_ohlcv ----
    config,             \* cache_refresh_interval_minutes and the trading hours
    now_wib,            \* weekday (Monday = 0) and hour of the current time
    cache_file,         \* the cache file of (ticker, start): exists, age in
                        \* seconds, whether read_csv can read it, its data
    api,                \* what the live API does when asked
    fetch_pc,           \* "idle", "start", "live", "done"
    cached_data,        \* what load_from_cache returned
    fetch_result,       \* what load_ohlcv returned, or "raised"
    fw_cls,             \* the Strategy class a Backtest of backtest.py runs
    fw_self,            \* its attributes stop_loss, take_profit, max_days,
                        \* entry_price and days_in_trade
    fw_position,        \* the broker's position, with the sl, tp and max_days
                        \* of the signal whose order opened it
    fw_order,           \* the buy order waiting at the broker
    fw_closing,         \* position.close() was requested and has not executed
    fw_seen,            \* calls of next() that saw the position since its fill
    fw_event            \* what the last next() did: "none", "buy", "close",
                        \* "raised"

vars == <<strategy_type, initial_cash, pc, i, row, df_columns, sig_position_open,
          days_held, entry_close, triggered_level, entries_i, exits_i, chk,
          exit_branch, last_flag, flag_balance, cash, shares_held, position_open,
          entry_price, entry_date,
          entry_level, sl_price, tp_price, trade_count, trade_pnl, appended, pv_len, pv_last, event,
          cash_before, touched, result, latest, live, sz_args, sz_realistic,
          sz_live, rp_col, rp_close, rp_position_open, rp_days_held,
          rp_entries_i, rp_exits_i, rp_chk, rp_entry, rp_lookup,
          rp_strategy_name, opt_cls, opt_pc,
          opt_params,
          opt_key, opt_bars, opt_read, st_gen, st_df, st_rec,
          tl_pnl, tl_stats, run_strategy, run_best, strategy_cls, cls_attrs,
          run_pc, run_outcome, config, now_wib, cache_file, api, fetch_pc,
          cached_data, fetch_result, fw_cls, fw_self, fw_position, fw_order,
          fw_closing, fw_seen, fw_event>>

liveVars == <<latest, live>>

sizerVars == <<sz_args, sz_realistic, sz_live>>

replayVars == <<rp_col, rp_close, rp_position_open, rp_days_held, rp_entries_i,
                rp_exits_i, rp_chk, rp_entry, rp_lookup, rp_strategy_name>>

\* the variables outside run_realistic_backtest, the live generators and the
\* sizers
optVars == <<opt_cls, opt_pc, opt_params, opt_key, opt_bars, opt_read>>

statelessVars == <<st_gen, st_df, st_rec>>

statsVars == <<tl_pnl, tl_stats>>

\* the components checked on their own inputs
runVars == <<run_strategy, run_best, strategy_cls, cls_attrs, run_pc,
             run_outcome>>

fetchVars == <<config, now_wib, cache_file, api, fetch_pc, cached_data,
               fetch_result>>

fwVars == <<fw_cls, fw_self, fw_position, fw_order, fw_closing, fw_seen,
            fw_event>>

auxVars == <<statsVars, runVars, fetchVars, fwVars>>

otherVars == <<replayVars, optVars, statelessVars, auxVars>>

-----------------------------------------------------------------------------
(* Bounds and input domains *)

MaxBars == 6

NaN == -1

NoRow == [low |-> 0, close |-> 0, high |-> 0, atr14 |-> NaN, R1 |-> NaN,
          R2 |-> NaN, R3 |-> NaN, S1 |-> NaN, S2 |-> NaN, S3 |-> NaN,
          ema10 |-> NaN, ema20 |-> NaN, rsi14 |-> NaN]

\* the columns load_data leaves in df that the strategies read
LoadedColumns == {"low", "close", "high", "atr14", "R1", "R2", "R3", "S1", "S2",
                  "S3", "ema10", "ema20", "rsi14"}

NoChk == [checked |-> FALSE, sl_price |-> NaN, tp_price |-> NaN, max_days |-> 0,
          days_held |-> 0]

NoLevel == "none"

NoTrade == [entry_date |-> NaN, exit_date |-> NaN, entry_price |-> NaN,
            exit_price |-> NaN, shares |-> 0, pnl |-> 0]

\* (low, close, high) of a bar: a middle bar, a down bar and an up bar
Shapes == { [low |-> 950, close |-> 1000, high |-> 1040],
            [low |-> 850, close |-> 900,  high |-> 1010],
            [low |-> 990, close |-> 1100, high |-> 1300] }

ATRs == {NaN, 0, 20, 100}

\* pivots, EMAs and RSI of a bar, placed relative to its close
Setups == {"none", "r1", "r2", "r3"}

\* setups of the last bar of a live series: undefined pivots, a hot RSI, the
\* support levels S1, S2, S3 touched alone or together, and S3 touched on a
\* close between EMA10 and EMA20
LiveSetups == {"nan", "hot", "s1", "s2", "s3", "s12", "s23", "s3e"}

MkBar(s, a, u) ==
    [low |-> s.low, close |-> s.close, high |-> s.high, atr14 |-> a,
     R1 |-> CASE u = "nan" -> NaN
              [] u \in {"r1", "hot"} -> s.close - 10
              [] u = "r2" -> s.close - 20
              [] u = "r3" -> s.close - 30
              [] OTHER -> s.close + 50,
     R2 |-> CASE u = "nan" -> NaN
              [] u = "r2" -> s.close - 10
              [] u = "r3" -> s.close - 20
              [] OTHER -> s.close + 100,
     R3 |-> CASE u = "nan" -> NaN
              [] u = "r3" -> s.close - 10
              [] OTHER -> s.close + 150,
     S1 |-> CASE u = "nan" -> NaN
              [] u \in {"s1", "s12"} -> s.close - 10
              [] u \in {"s2", "s3", "s23", "s3e"} -> s.close + 40
              [] OTHER -> s.close - 400,
     S2 |-> CASE u = "nan" -> NaN
              [] u \in {"s2", "s12", "s23"} -> s.close - 20
              [] u \in {"s3", "s3e"} -> s.close + 30
              [] OTHER -> s.close - 500,
     S3 |-> CASE u = "nan" -> NaN
              [] u \in {"s3", "s23", "s3e"} -> s.close - 30
              [] OTHER -> s.close - 600,
     ema10 |-> s.close - 50,
     ema20 |-> IF u = "s3e" THEN s.close + 10 ELSE s.close - 50,
     rsi14 |-> CASE u = "r1" -> 38
                 [] u = "hot" -> 75
                 [] OTHER -> 50]

\* the series of a backtest: every bar shape and ATR without a breakout
\* trigger, and the middle bar with each trigger
Bars == { MkBar(s, a, "none") : s \in Shapes, a \in ATRs }
        \cup { MkBar(s, a, u) : s \in {sh \in Shapes : sh.close = 1000},
                                a \in ATRs, u \in Setups }

\* the last bar handed to a live generator
LiveBars == { MkBar(s, a, u) : s \in Shapes, a \in ATRs,
                               u \in Setups \cup LiveSetups }

InitialCash == {4000}

\* cash handed to a live generator and to the backtest compared with it
LiveCash == {500, 4000, 1000000}

\* arguments of the position sizers
SizerArgs == [cash : {1000, 4000, 1000000}, entry_price : {100, 1000},
              stop_loss : {80, 100, 900, 980, 1000, 1020}]

NoArgs == [cash |-> 0, entry_price |-> 0, stop_loss |-> 0]

NotSized == [kind |-> "none", shares |-> 0, investment |-> 0, risk |-> 0]

NoSignal == [strategy |-> "none", signal |-> "none", entry_price |-> NaN,
             entry_level |-> NoLevel, stop_loss |-> NaN, take_profit |-> NaN,
             shares |-> 0, investment |-> 0, risk_amount |-> 0,
             max_hold_days |-> 0]

StrategyTypes == {"pullback", "breakout"}

-----------------------------------------------------------------------------
(* NaN-aware arithmetic and comparisons *)

IsNa(x) == x = NaN
NotNa(x) == x # NaN
Gt(a, b) == NotNa(a) /\ NotNa(b) /\ a > b
Lt(a, b) == NotNa(a) /\ NotNa(b) /\ a < b
Ge(a, b) == NotNa(a) /\ NotNa(b) /\ a >= b
Le(a, b) == NotNa(a) /\ NotNa(b) /\ a <= b
Abs(x) == IF x < 0 THEN 0 - x ELSE x

\* price + (k10/10) * atr   (k10 negative for a stop)
Offset(price, k10, atr) ==
    IF IsNa(price) \/ IsNa(atr) THEN NaN ELSE price + ((k10 * atr) \div 10)

\* low <= level * (pct/100)   and   high >= level * (pct/100)
LePct(x, level, pct) == NotNa(x) /\ NotNa(level) /\ 100 * x <= pct * level
GePct(x, level, pct) == NotNa(x) /\ NotNa(level) /\ 100 * x >= pct * level

-----------------------------------------------------------------------------
(* Per-level trigger expressions, written out twice in realistic_backtest.py
   (lines 97-98 and 107-109 in pass 1, lines 253-254 and 268-270 in pass 2) *)

r1_triggered(r) ==
    LePct(r.low, r.R1, 101) /\ GePct(r.high, r.R1, 99) /\ Gt(r.close, r.R1)

r2_triggered(r) ==
    LePct(r.low, r.R2, 102) /\ GePct(r.high, r.R2, 98)

r1_breakout(r) == Gt(r.close, r.R1) /\ Gt(r.rsi14, 35) /\ Gt(r.close, r.ema10)

r2_breakout(r) == Gt(r.close, r.R2) /\ Gt(r.rsi14, 40) /\ Gt(r.close, r.ema20)

r3_breakout(r) == Gt(r.close, r.R3) /\ Gt(r.rsi14, 40)

\* entry_condition of generate_realistic_signals, evaluated on one bar
entry_condition(st, r) ==
    IF st = "pullback"
    THEN /\ \/ /\ LePct(r.low, r.R1, 101)
               /\ GePct(r.high, r.R1, 99)
               /\ Gt(r.close, r.R1)
               /\ Gt(r.close, r.ema20)
            \/ /\ LePct(r.low, r.R2, 102)
               /\ GePct(r.high, r.R2, 98)
               /\ Gt(r.close, r.ema20)
         /\ Lt(r.rsi14, 70)
         /\ NotNa(r.R1) /\ NotNa(r.R2) /\ NotNa(r.atr14)
    ELSE /\ \/ Gt(r.close, r.R1) /\ Gt(r.rsi14, 35) /\ Gt(r.close, r.ema10)
            \/ Gt(r.close, r.R2) /\ Gt(r.rsi14, 40) /\ Gt(r.close, r.ema20)
            \/ Gt(r.close, r.R3) /\ Gt(r.rsi14, 40)
         /\ NotNa(r.R1) /\ NotNa(r.R2) /\ NotNa(r.R3) /\ NotNa(r.atr14)

\* the level pass 1 writes to df['triggered_level'] on an entry bar
SignalLevel(st, r) ==
    IF st = "pullback"
    THEN IF r1_triggered(r) /\ ~r2_triggered(r) THEN "R1" ELSE "R2"
    ELSE IF r3_breakout(r) THEN "R3"
         ELSE IF r2_breakout(r) THEN "R2" ELSE "R1"

\* sl_price, tp_price and max_days pass 1 computes on a bar while in position:
\* from the entry bar's close and level and from the CURRENT bar's atr14
SignalExitParams(st, level, price, atr) ==
    IF st = "pullback"
    THEN IF level = "R1"
         THEN [sl_price |-> Offset(price, -10, atr),
               tp_price |-> Offset(price, 20, atr), max_days |-> 6]
         ELSE [sl_price |-> Offset(price, -15, atr),
               tp_price |-> Offset(price, 25, atr), max_days |-> 8]
    ELSE IF level = "R1"
         THEN [sl_price |-> Offset(price, -8, atr),
               tp_price |-> Offset(price, 15, atr), max_days |-> 4]
         ELSE IF level = "R2"
              THEN [sl_price |-> Offset(price, -10, atr),
                    tp_price |-> Offset(price, 20, atr), max_days |-> 6]
              ELSE [sl_price |-> Offset(price, -12, atr),
                    tp_price |-> Offset(price, 25, atr), max_days |-> 8]

\* the if / elif / elif chain that sets exits.iloc[i]
ExitBranchTargetFirst(r, p, dh) ==
    IF Ge(r.high, p.tp_price) THEN "take_profit"
    ELSE IF Le(r.low, p.sl_price) THEN "stop_loss"
    ELSE IF dh >= p.max_days THEN "time_exit"
    ELSE "none"

ExitBranchLate(r, p, dh) ==
    IF Le(r.low, p.sl_price) THEN "stop_loss"
    ELSE IF Ge(r.high, p.tp_price) THEN "take_profit"
    ELSE IF dh > p.max_days THEN "time_exit"
    ELSE "none"

ExitBranch(r, p, dh) ==
    IF Le(r.low, p.sl_price) THEN "stop_loss"
    ELSE IF Ge(r.high, p.tp_price) THEN "take_profit"
    ELSE IF dh >= p.max_days THEN "time_exit"
    ELSE "none"

-----------------------------------------------------------------------------
(* Pass 2: entry parameters and position sizing *)

\* entry_level, sl_price, tp_price computed on the entry bar
EntryParams(st, r) ==
    IF st = "pullback"
    THEN IF r1_triggered(r) /\ ~r2_triggered(r)
         THEN [entry_level |-> "R1", sl_price |-> Offset(r.close, -10, r.atr14),
               tp_price |-> Offset(r.close, 20, r.atr14)]
         ELSE [entry_level |-> "R2", sl_price |-> Offset(r.close, -15, r.atr14),
               tp_price |-> Offset(r.close, 25, r.atr14)]
    ELSE IF r3_breakout(r)
         THEN [entry_level |-> "R3", sl_price |-> Offset(r.close, -12, r.atr14),
               tp_price |-> Offset(r.close, 25, r.atr14)]
         ELSE IF r2_breakout(r)
              THEN [entry_level |-> "R2", sl_price |-> Offset(r.close, -10, r.atr14),
                    tp_price |-> Offset(r.close, 20, r.atr14)]
              ELSE [entry_level |-> "R1", sl_price |-> Offset(r.close, -8, r.atr14),
                    tp_price |-> Offset(r.close, 15, r.atr14)]

\* int(available_cash * 0.02 / risk_per_share)
SharesByRisk(available_cash, risk_per_share) ==
    (2 * available_cash) \div (100 * risk_per_share)

\* int(available_cash * 0.95 / entry_price)
SharesByCash(available_cash, price) ==
    (95 * available_cash) \div (100 * price)

Min(a, b) == IF a <= b THEN a ELSE b

\* The value returned: the bare int 0 when risk_per_share <= 0 (line 197),
\* otherwise the 4-tuple of line 215 (actual_risk_pct, a ratio only printed,
\* is left out).
calculate_realistic_position_size(available_cash, price, sl) ==
    LET risk_per_share == Abs(price - sl)
        final_shares == Min(SharesByRisk(available_cash, risk_per_share),
                            SharesByCash(available_cash, price))
    IN  IF risk_per_share <= 0
        THEN [kind |-> "int", shares |-> 0, investment |-> 0, risk |-> 0]
        ELSE [kind |-> "tuple", shares |-> final_shares,
              investment |-> final_shares * price,
              risk |-> final_shares * risk_per_share]

-----------------------------------------------------------------------------
(* trading_strategies.py: TradingStrategy and LiveSignalStrategy *)

check_breakout_conditions(r) ==
    [r1_breakout |-> Gt(r.close, r.R1) /\ Gt(r.rsi14, 35) /\ Gt(r.close, r.ema10),
     r2_breakout |-> Gt(r.close, r.R2) /\ Gt(r.rsi14, 40) /\ Gt(r.close, r.ema20),
     r3_breakout |-> Gt(r.close, r.R3) /\ Gt(r.rsi14, 40)]

DetermineBreakoutLevelR2First(breakout_status) ==
    IF breakout_status.r2_breakout THEN "R2"
    ELSE IF breakout_status.r3_breakout THEN "R3"
    ELSE "R1"

determine_breakout_level(breakout_status) ==
    IF breakout_status.r3_breakout THEN "R3"
    ELSE IF breakout_status.r2_breakout THEN "R2"
    ELSE "R1"

get_breakout_parameters(level, atr, price) ==
    IF level = "R1"
    THEN [stop_loss |-> Offset(price, -6, atr),
          take_profit |-> Offset(price, 12, atr), max_days |-> 3]
    ELSE IF level = "R2"
    THEN [stop_loss |-> Offset(price, -10, atr),
          take_profit |-> Offset(price, 20, atr), max_days |-> 6]
    ELSE [stop_loss |-> Offset(price, -12, atr),
          take_profit |-> Offset(price, 25, atr), max_days |-> 8]

check_resistance_retest_conditions(r) ==
    [r1_triggered |-> /\ LePct(r.low, r.R1, 101)
                      /\ GePct(r.high, r.R1, 99)
                      /\ Gt(r.close, r.R1)
                      /\ Gt(r.close, r.ema20),
     r2_triggered |-> /\ LePct(r.low, r.R2, 102)
                      /\ GePct(r.high, r.R2, 98)
                      /\ Gt(r.close, r.ema20)]

determine_resistance_retest_level(retest_status) ==
    IF retest_status.r1_triggered /\ ~retest_status.r2_triggered
    THEN "R1" ELSE "R2"

get_resistance_retest_parameters(level, atr, price) ==
    IF level = "R1"
    THEN [stop_loss |-> Offset(price, -10, atr),
          take_profit |-> Offset(price, 20, atr), max_days |-> 6]
    ELSE [stop_loss |-> Offset(price, -15, atr),
          take_profit |-> Offset(price, 25, atr), max_days |-> 8]

check_pullback_conditions(r) ==
    [s1_pullback |-> /\ GePct(r.high, r.S1, 99)
                     /\ LePct(r.low, r.S1, 101)
                     /\ Gt(r.close, r.S1)
                     /\ Gt(r.close, r.ema20)
                     /\ Lt(r.rsi14, 70),
     s2_pullback |-> /\ GePct(r.high, r.S2, 98)
                     /\ LePct(r.low, r.S2, 102)
                     /\ Gt(r.close, r.S2)
                     /\ Gt(r.close, r.ema20)
                     /\ Lt(r.rsi14, 65),
     s3_pullback |-> /\ GePct(r.high, r.S3, 97)
                     /\ LePct(r.low, r.S3, 103)
                     /\ Gt(r.close, r.S3)
                     /\ Gt(r.close, r.ema10)
                     /\ Lt(r.rsi14, 60)]

DeterminePullbackLevelS3First(pullback_status) ==
    IF pullback_status.s3_pullback THEN "S3"
    ELSE IF pullback_status.s2_pullback THEN "S2"
    ELSE "S1"

determine_pullback_level(pullback_status) ==
    IF pullback_status.s1_pullback THEN "S1"
    ELSE IF pullback_status.s2_pullback THEN "S2"
    ELSE "S3"

get_pullback_parameters(level, atr, price) ==
    IF level = "S1"
    THEN [stop_loss |-> Offset(price, -8, atr),
          take_profit |-> Offset(price, 18, atr), max_days |-> 5]
    ELSE IF level = "S2"
    THEN [stop_loss |-> Offset(price, -12, atr),
          take_profit |-> Offset(price, 22, atr), max_days |-> 7]
    ELSE [stop_loss |-> Offset(price, -15, atr),
          take_profit |-> Offset(price, 28, atr), max_days |-> 10]

has_breakout_signal(r) ==
    LET st == check_breakout_conditions(r)
    IN  st.r1_breakout \/ st.r2_breakout \/ st.r3_breakout

HasResistanceRetestSignalUntriggered(r) ==
    Lt(r.rsi14, 70) /\ NotNa(r.R1) /\ NotNa(r.R2) /\ NotNa(r.atr14)

has_resistance_retest_signal(r) ==
    LET st == check_resistance_retest_conditions(r)
    IN  /\ st.r1_triggered \/ st.r2_triggered
        /\ Lt(r.rsi14, 70)
        /\ NotNa(r.R1) /\ NotNa(r.R2) /\ NotNa(r.atr14)

has_pullback_signal(r) ==
    LET st == check_pullback_conditions(r)
    IN  /\ st.s1_pullback \/ st.s2_pullback \/ st.s3_pullback
        /\ Gt(r.close, r.ema20)
        /\ NotNa(r.S1) /\ NotNa(r.S2) /\ NotNa(r.S3) /\ NotNa(r.atr14)

\* (shares, investment); abs(nan) > 0 is False, so a NaN stop gives (0, 0.0)
calculate_position_size(c, price, stop_loss) ==
    LET risk_per_share == IF IsNa(price) \/ IsNa(stop_loss) THEN NaN
                          ELSE Abs(price - stop_loss)
    IN  IF Gt(risk_per_share, 0)
        THEN [kind |-> "tuple",
              shares |-> (2 * c) \div (100 * risk_per_share),
              investment |-> ((2 * c) \div (100 * risk_per_share)) * price,
              risk |-> ((2 * c) \div (100 * risk_per_share)) * risk_per_share]
        ELSE [kind |-> "tuple", shares |-> 0, investment |-> 0, risk |-> 0]

\* The record returned, without the indicator echo of default_signal_indicators
\* and the symbol; the keys a HOLD record lacks hold the values of NoSignal.
generate_breakout_signal(r, c) ==
    LET st     == check_breakout_conditions(r)
        level  == determine_breakout_level(st)
        params == get_breakout_parameters(level, r.atr14, r.close)
        size   == calculate_position_size(c, r.close, params.stop_loss)
    IN  IF st.r1_breakout \/ st.r2_breakout \/ st.r3_breakout
        THEN [strategy |-> "BREAKOUT", signal |-> "BUY",
              entry_price |-> r.close, entry_level |-> level,
              stop_loss |-> params.stop_loss, take_profit |-> params.take_profit,
              shares |-> size.shares, investment |-> size.investment,
              risk_amount |-> IF IsNa(params.stop_loss) THEN NaN
                              ELSE size.shares * (r.close - params.stop_loss),
              max_hold_days |-> params.max_days]
        ELSE [NoSignal EXCEPT !.strategy = "BREAKOUT", !.signal = "HOLD"]

generate_resistance_retest_signal(r, c) ==
    LET level  == determine_resistance_retest_level(
                      check_resistance_retest_conditions(r))
        price  == IF level = "R1" THEN r.R1 ELSE r.R2
        params == get_resistance_retest_parameters(level, r.atr14, price)
        size   == calculate_position_size(c, price, params.stop_loss)
    IN  IF has_resistance_retest_signal(r)
        THEN [strategy |-> "RESISTANCE_RETEST", signal |-> "BUY",
              entry_price |-> price, entry_level |-> level,
              stop_loss |-> params.stop_loss, take_profit |-> params.take_profit,
              shares |-> size.shares, investment |-> size.investment,
              risk_amount |-> size.shares * (price - params.stop_loss),
              max_hold_days |-> params.max_days]
        ELSE [NoSignal EXCEPT !.strategy = "RESISTANCE_RETEST", !.signal = "HOLD"]

generate_pullback_signal(r, c) ==
    LET level  == determine_pullback_level(check_pullback_conditions(r))
        price  == IF level = "S1" THEN r.S1
                  ELSE IF level = "S2" THEN r.S2 ELSE r.S3
        params == get_pullback_parameters(level, r.atr14, price)
        size   == calculate_position_size(c, price, params.stop_loss)
    IN  IF has_pullback_signal(r)
        THEN [strategy |-> "PULLBACK", signal |-> "BUY",
              entry_price |-> price, entry_level |-> level,
              stop_loss |-> params.stop_loss, take_profit |-> params.take_profit,
              shares |-> size.shares, investment |-> size.investment,
              risk_amount |-> size.shares * (price - params.stop_loss),
              max_hold_days |-> params.max_days]
        ELSE [NoSignal EXCEPT !.strategy = "PULLBACK", !.signal = "HOLD"]

-----------------------------------------------------------------------------
(* run_realistic_backtest *)

\* the locals of run_realistic_backtest before its first bar (lines 222-235)
SimInit ==
    /\ pc = "loop"
    /\ i = 0
    /\ row = NoRow
    /\ df_columns = LoadedColumns
    /\ sig_position_open = FALSE
    /\ days_held = 0
    /\ entry_close = NaN
    /\ triggered_level = NoLevel
    /\ entries_i = FALSE
    /\ exits_i = FALSE
    /\ chk = NoChk
    /\ exit_branch = "none"
    /\ last_flag = "none"
    /\ flag_balance = 0
    /\ cash = initial_cash
    /\ shares_held = 0
    /\ position_open = FALSE
    /\ entry_price = 0
    /\ entry_date = NaN
    /\ entry_level = NoLevel
    /\ sl_price = 0
    /\ tp_price = 0
    /\ trade_count = 0
    /\ trade_pnl = 0
    /\ appended = NoTrade
    /\ pv_len = 0
    /\ pv_last = NaN
    /\ event = "none"
    /\ cash_before = initial_cash
    /\ touched = FALSE
    /\ result = [final_value |-> NaN]

LiveIdle == latest = NoRow /\ live = NoSignal

\* no entry bar, nothing read
NoLookup == [idx |-> -1, level |-> NoLevel, close |-> NaN]

ReplayIdle ==
    /\ rp_strategy_name = "none"
    /\ rp_col = <<>>
    /\ rp_close = <<>>
    /\ rp_position_open = FALSE
    /\ rp_days_held = 0
    /\ rp_entries_i = FALSE
    /\ rp_exits_i = FALSE
    /\ rp_chk = NoChk
    /\ rp_entry = NoLookup
    /\ rp_lookup = NoLookup

\* the trials of a study (threads of study.optimize)
Trials == {1, 2}

\* the class attributes of Breakout as written in backtest.py (lines 14-16),
\* the multiples in tenths
BreakoutDefaults == [n_sl_r1 |-> 6, n_tp_r1 |-> 12, n_days_r1 |-> 3]

NoParams == [n_sl_r1 |-> NaN, n_tp_r1 |-> NaN, n_days_r1 |-> NaN]

OptIdle ==
    /\ opt_cls = BreakoutDefaults
    /\ opt_pc = [t \in Trials |-> "idle"]
    /\ opt_params = [t \in Trials |-> NoParams]
    /\ opt_key = [t \in Trials |-> 0]
    /\ opt_bars = [t \in Trials |-> 0]
    /\ opt_read = [t \in Trials |-> NoParams]

\* the two calls of a live generator that are compared
Calls == {"a", "b"}

StatelessIdle ==
    /\ st_gen = "none"
    /\ st_df = [x \in Calls |-> <<>>]
    /\ st_rec = [x \in Calls |-> NoSignal]

\* a float of the statistics: an exact ratio, inf or nan
Ratio(a, b) == [kind |-> "num", num |-> a, den |-> b]

Inf == [kind |-> "inf", num |-> 0, den |-> 0]

NotANumber == [kind |-> "nan", num |-> 0, den |-> 0]

NoStats == [computed |-> FALSE, win_rate |-> Ratio(0, 1),
            profit_factor |-> Ratio(0, 1)]

StatsIdle ==
    /\ tl_pnl = <<>>
    /\ tl_stats = NoStats

\* the strategy classes of backtest.py and the --strategy names that select them
StrategyClass(strategy) ==
    CASE strategy = "breakout" -> "Breakout"
      [] strategy = "pullback" -> "Pullback"
      [] strategy = "resistance_retest" -> "ResistanceRetest"

\* n_sl, n_tp (in tenths) and n_days of each class's first level (r1 or s1),
\* as the class statements set them (lines 14-16, 146-148, 300-302)
ClassDefaults ==
    [c \in {"Breakout", "Pullback", "ResistanceRetest"} |->
        CASE c = "Breakout" -> [n_sl |-> 6, n_tp |-> 12, n_days |-> 3]
          [] c = "Pullback" -> [n_sl |-> 8, n_tp |-> 18, n_days |-> 5]
          [] c = "ResistanceRetest" -> [n_sl |-> 10, n_tp |-> 20, n_days |-> 6]]

\* no params file for the symbol and strategy
MissingFile == [exists |-> FALSE, n_sl |-> NaN, n_tp |-> NaN, n_days |-> NaN]

RunIdle ==
    /\ run_strategy = "none"
    /\ run_best = MissingFile
    /\ strategy_cls = "None"
    /\ cls_attrs = ClassDefaults
    /\ run_pc = "idle"
    /\ run_outcome = "none"

\* no cache file for (ticker, start)
NoCacheFile == [exists |-> FALSE, age |-> 0, readable |-> FALSE, data |-> "None"]

\* the defaults of Config._load_config (config.py lines 30-32)
DefaultConfig == [cache_refresh_interval_minutes |-> 10,
                  trading_start_hour |-> 9, trading_end_hour |-> 18]

FetchIdle ==
    /\ config = DefaultConfig
    /\ now_wib = [weekday |-> 0, hour |-> 0]
    /\ cache_file = NoCacheFile
    /\ api = "none"
    /\ fetch_pc = "idle"
    /\ cached_data = "pending"
    /\ fetch_result = "pending"

\* an attribute init() sets to None
None == NaN

\* the attributes after init() (lines 28-33, 160-166, 317-323)
InitAttrs == [stop_loss |-> None, take_profit |-> None, max_days |-> None,
              entry_price |-> None, days_in_trade |-> 0]

\* no position, no order
Flat == [open |-> FALSE, sl |-> None, tp |-> None, max_days |-> None]
NoOrder == [pending |-> FALSE, limit |-> None, sl |-> None, tp |-> None,
            max_days |-> None]

FwIdle ==
    /\ fw_cls = "None"
    /\ fw_self = InitAttrs
    /\ fw_position = Flat
    /\ fw_order = NoOrder
    /\ fw_closing = FALSE
    /\ fw_seen = 0
    /\ fw_event = "none"

AuxIdle == StatsIdle /\ RunIdle /\ FetchIdle /\ FwIdle

OtherIdle == ReplayIdle /\ OptIdle /\ StatelessIdle /\ AuxIdle

SizerIdle == sz_args = NoArgs /\ sz_realistic = NotSized /\ sz_live = NotSized

Init ==
    /\ strategy_type \in StrategyTypes
    /\ initial_cash \in InitialCash
    /\ SimInit
    /\ LiveIdle
    /\ SizerIdle
    /\ OtherIdle

\* line 89: if not position_open and entry_condition.iloc[i]
EntryFlagUnguarded(open, cond) == cond

EntryFlag(open, cond) == ~open /\ cond

\* Pass 1 on bar r (index i): lines 86-181 of generate_realistic_signals.
\* entry_close and triggered_level stand for the two backward lookups at index
\* i - days_held; on a bar that leaves days_held = 0 that index is the bar itself.
SignalPass(r) ==
    LET enter == EntryFlag(sig_position_open, entry_condition(strategy_type, r))
        held  == ~enter /\ sig_position_open
        dh    == days_held + 1
        p     == SignalExitParams(strategy_type, triggered_level, entry_close, r.atr14)
        br    == IF held THEN ExitBranch(r, p, dh) ELSE "none"
    IN  /\ entries_i' = enter
        /\ exits_i' = (br # "none")
        /\ exit_branch' = br
        /\ last_flag' = IF enter THEN "entry"
                        ELSE IF br # "none" THEN "exit" ELSE last_flag
        /\ flag_balance' = flag_balance + (IF enter THEN 1 ELSE 0)
                                        - (IF br # "none" THEN 1 ELSE 0)
        /\ chk' = IF held
                  THEN [checked |-> TRUE, sl_price |-> p.sl_price,
                        tp_price |-> p.tp_price, max_days |-> p.max_days,
                        days_held |-> dh]
                  ELSE NoChk
        /\ sig_position_open' = IF enter THEN TRUE
                                ELSE IF br # "none" THEN FALSE
                                ELSE sig_position_open
        /\ days_held' = IF enter \/ br # "none" THEN 0
                        ELSE IF held THEN dh ELSE days_held
        /\ entry_close' = IF held /\ br = "none" THEN entry_close ELSE r.close
        /\ triggered_level' = IF enter THEN SignalLevel(strategy_type, r)
                              ELSE IF held /\ br = "none" THEN triggered_level
                              ELSE NoLevel
        \* df.loc[df.index[i], 'triggered_level'] = ... creates the column in df
        /\ df_columns' = IF enter THEN df_columns \cup {"triggered_level"}
                         ELSE df_columns

AppendValueCashOnly(r) ==
    /\ pv_len' = pv_len + 1
    /\ pv_last' = cash

\* lines 238-245: one value appended to portfolio_value, before any trade
AppendValue(r) ==
    /\ pv_len' = pv_len + 1
    /\ pv_last' = IF shares_held > 0 THEN cash + shares_held * r.close ELSE cash

\* line 293: if shares > 0 and investment <= cash
AcceptedAlways(ret, c) == TRUE

Accepted(ret, c) == ret.shares > 0 /\ ret.investment <= c

\* lines 248-303: the body of  if entries.iloc[i] and not position_open
EnterPosition(r) ==
    LET ep  == EntryParams(strategy_type, r)
        ret == calculate_realistic_position_size(cash, r.close, ep.sl_price)
    IN  /\ entry_level' = ep.entry_level
        /\ sl_price' = ep.sl_price
        /\ tp_price' = ep.tp_price
        /\ appended' = NoTrade
        /\ UNCHANGED <<trade_count, trade_pnl>>
        /\ IF ret.kind = "int"
           THEN \* unpacking the int 0 into four names raises TypeError
                /\ pc' = "raised"
                /\ event' = "raised"
                /\ UNCHANGED <<cash, shares_held, position_open, entry_price,
                               entry_date>>
           ELSE IF Accepted(ret, cash)
           THEN /\ shares_held' = ret.shares
                /\ cash' = cash - ret.investment
                /\ entry_price' = r.close
                /\ entry_date' = i
                /\ position_open' = TRUE
                /\ event' = "entry"
                /\ UNCHANGED pc
           ELSE /\ event' = "rejected"
                /\ UNCHANGED <<pc, cash, shares_held, position_open, entry_price,
                               entry_date>>

\* line 309: cash += proceeds
CashAfterExitDebited(c, proceeds) == c - proceeds

CashAfterExit(c, proceeds) == c + proceeds

\* line 312: trade_pnl = proceeds - (shares_held * entry_price)
TradePnlUnscaled(proceeds, shares, price) == proceeds - price

TradePnl(proceeds, shares, price) == proceeds - shares * price

\* line 329: shares_held = 0
SharesKeptAfterExit(shares) == shares

SharesAfterExit(shares) == 0

\* line 330: position_open = False
PositionOpenKeptAfterExit(p) == p

PositionOpenAfterExit(p) == FALSE

\* lines 306-330: the body of  elif exits.iloc[i] and position_open
\* (return_pct, a ratio that is only averaged and printed, is left out)
ExitPosition(r) ==
    LET exit_price == r.close
        proceeds == shares_held * exit_price
    IN  /\ cash' = CashAfterExit(cash, proceeds)
        /\ appended' = [entry_date |-> entry_date, exit_date |-> i,
                        entry_price |-> entry_price, exit_price |-> exit_price,
                        shares |-> shares_held,
                        pnl |-> TradePnl(proceeds, shares_held, entry_price)]
        /\ trade_count' = trade_count + 1
        /\ trade_pnl' = trade_pnl + appended'.pnl
        /\ shares_held' = SharesAfterExit(shares_held)
        /\ position_open' = PositionOpenAfterExit(position_open)
        /\ event' = "exit"
        /\ UNCHANGED <<pc, entry_price, entry_date, entry_level, sl_price, tp_price>>

\* Pass 2 on bar r (index i): lines 237-330 of run_realistic_backtest.
PortfolioPass(r) ==
    /\ AppendValue(r)
    /\ cash_before' = cash
    /\ touched' = (position_open /\ (touched \/ Le(r.low, sl_price)
                                             \/ Ge(r.high, tp_price)))
    /\ IF entries_i' /\ ~position_open
       THEN EnterPosition(r)
       ELSE IF exits_i' /\ position_open
       THEN ExitPosition(r)
       ELSE /\ event' = "none"
            /\ appended' = NoTrade
            /\ UNCHANGED <<pc, cash, shares_held, position_open, entry_price,
                           entry_date, entry_level, sl_price, tp_price,
                           trade_count, trade_pnl>>

\* Bar r, the bar of index i, goes through both passes.
Step(r) ==
    /\ pc = "loop"
    /\ row' = r
    /\ SignalPass(r)
    /\ PortfolioPass(r)
    /\ i' = i + 1
    /\ UNCHANGED <<strategy_type, initial_cash, result, liveVars, sizerVars>>

\* One more bar of the series.
ProcessBar ==
    /\ i < MaxBars
    /\ \E r \in Bars : Step(r)
    /\ UNCHANGED otherVars

\* The series ends after the bar processed last: lines 332-334.
Finish ==
    /\ pc = "loop"
    /\ i >= 1
    /\ pc' = "done"
    /\ result' = [final_value |-> cash + shares_held * row.close]
    /\ UNCHANGED <<strategy_type, initial_cash, i, row, df_columns,
                   sig_position_open, days_held, entry_close, triggered_level,
                   entries_i, exits_i, chk, exit_branch, last_flag,
                   flag_balance, cash, shares_held,
                   position_open, entry_price, entry_date, entry_level,
                   sl_price, tp_price, trade_count,
                   trade_pnl, appended, pv_len, pv_last, event, cash_before,
                   touched, liveVars, sizerVars, otherVars>>

Next == ProcessBar \/ Finish

Spec == Init /\ [][Next]_vars

-----------------------------------------------------------------------------
(* Live generator against the simulator: one bar, the same strategy and cash.
   The simulator's 'pullback' branch holds the R1/R2 retest rules, so it is
   paired with generate_resistance_retest_signal. *)

simVars == <<pc, i, row, df_columns, sig_position_open, days_held, entry_close,
             triggered_level, entries_i, exits_i, chk, exit_branch, last_flag,
             flag_balance, cash,
             shares_held, position_open, entry_price, entry_date, entry_level,
             sl_price,
             tp_price, trade_count, trade_pnl, appended, pv_len, pv_last, event,
             cash_before, touched, result>>

InitParity ==
    /\ strategy_type \in StrategyTypes
    /\ initial_cash \in LiveCash
    /\ SimInit
    /\ latest \in LiveBars
    /\ live = NoSignal
    /\ SizerIdle
    /\ OtherIdle

\* the live generator is called on a series ending in bar latest
GenerateLive ==
    /\ live = NoSignal
    /\ live' = IF strategy_type = "breakout"
               THEN generate_breakout_signal(latest, initial_cash)
               ELSE generate_resistance_retest_signal(latest, initial_cash)
    /\ UNCHANGED <<strategy_type, initial_cash, simVars, latest, sizerVars,
                   otherVars>>

\* run_realistic_backtest, flat and holding the same cash, is given that bar
BacktestLatest ==
    /\ i = 0
    /\ Step(latest)
    /\ UNCHANGED otherVars

NextParity == GenerateLive \/ BacktestLatest

SpecParity == InitParity /\ [][NextParity]_vars

-----------------------------------------------------------------------------
(* The three live generators and the simulator on the same last bar; the
   simulator is then given one more bar. *)

InitLive ==
    /\ strategy_type \in StrategyTypes
    /\ initial_cash \in LiveCash
    /\ SimInit
    /\ latest \in LiveBars
    /\ live = NoSignal
    /\ SizerIdle
    /\ OtherIdle

LiveGenerate(signal) ==
    /\ live = NoSignal
    /\ live' = signal
    /\ UNCHANGED <<strategy_type, initial_cash, simVars, latest, sizerVars,
                   otherVars>>

GenerateBreakout == LiveGenerate(generate_breakout_signal(latest, initial_cash))

GenerateRetest ==
    LiveGenerate(generate_resistance_retest_signal(latest, initial_cash))

GeneratePullback == LiveGenerate(generate_pullback_signal(latest, initial_cash))

\* the bar that follows the last bar in the simulator's series
BacktestFollowing ==
    /\ i = 1
    /\ \E r \in Bars : Step(r)
    /\ UNCHANGED otherVars

NextLive ==
    \/ GenerateBreakout
    \/ GenerateRetest
    \/ GeneratePullback
    \/ BacktestLatest
    \/ BacktestFollowing

SpecLive == InitLive /\ [][NextLive]_vars

-----------------------------------------------------------------------------
(* Replay.  run_realistic_backtest on a fresh df (Step) and, bar by bar on the
   same bars, generate_realistic_signals of a second run with the same
   strategy name on a df object that earlier runs have already processed: its
   'triggered_level' column exists and holds whatever those runs left.  The
   second run's reads of df go through the bar index. *)

\* the bar indices of the replayed series
ReplayIndex == 0 .. 2

\* what a cell of df['triggered_level'] can hold after runs of any strategy
StaleLevels == {NoLevel, "R1", "R2", "R3"}

\* lines 128 and 143: entry_idx = i - days_held
EntryIdxCurrentBar(idx, dh) == idx

EntryIdx(idx, dh) == idx - dh

InitReplay ==
    /\ strategy_type \in StrategyTypes
    /\ initial_cash \in InitialCash
    /\ SimInit
    /\ LiveIdle
    /\ SizerIdle
    /\ rp_strategy_name = strategy_type
    /\ rp_col \in [ReplayIndex -> StaleLevels]
    /\ rp_close = [k \in ReplayIndex |-> NaN]
    /\ rp_position_open = FALSE
    /\ rp_days_held = 0
    /\ rp_entries_i = FALSE
    /\ rp_exits_i = FALSE
    /\ rp_chk = NoChk
    /\ rp_entry = NoLookup
    /\ rp_lookup = NoLookup
    /\ OptIdle
    /\ StatelessIdle
    /\ AuxIdle

\* names run_realistic_backtest is called with (app.py lines 128-130,
\* compare_live_backtest.py), and the lower-cased names
StrategyNames == {"Breakout", "Pullback", "Resistance_Retest", "PULLBACK",
                  "breakout", "pullback"}

\* line 222: strategy_name.lower()
LowerIdentity(name) == name

Lower(name) ==
    CASE name \in {"Breakout", "breakout"} -> "breakout"
      [] name \in {"Pullback", "PULLBACK", "pullback"} -> "pullback"
      [] name = "Resistance_Retest" -> "resistance_retest"

\* lines 86-181 on bar r (index i) of the second run
ReplaySignalPass(r) ==
    LET st     == Lower(rp_strategy_name)
        enter  == ~rp_position_open /\ entry_condition(st, r)
        held   == ~enter /\ rp_position_open
        dh     == rp_days_held + 1
        closes == [rp_close EXCEPT ![i] = r.close]
        p      == SignalExitParams(st, rp_col[EntryIdx(i, dh)],
                                   closes[EntryIdx(i, dh)], r.atr14)
        br     == IF held THEN ExitBranch(r, p, dh) ELSE "none"
    IN  /\ rp_entries_i' = enter
        /\ rp_exits_i' = (br # "none")
        /\ rp_chk' = IF held
                     THEN [checked |-> TRUE, sl_price |-> p.sl_price,
                           tp_price |-> p.tp_price, max_days |-> p.max_days,
                           days_held |-> dh]
                     ELSE NoChk
        /\ rp_position_open' = IF enter THEN TRUE
                               ELSE IF br # "none" THEN FALSE
                               ELSE rp_position_open
        /\ rp_days_held' = IF enter \/ br # "none" THEN 0
                           ELSE IF held THEN dh ELSE rp_days_held
        /\ rp_col' = IF enter
                     THEN [rp_col EXCEPT ![i] = SignalLevel(st, r)]
                     ELSE rp_col
        /\ rp_close' = closes
        /\ UNCHANGED rp_strategy_name
        /\ rp_entry' = IF enter
                       THEN [idx |-> i, level |-> SignalLevel(st, r),
                             close |-> r.close]
                       ELSE rp_entry
        /\ rp_lookup' = IF held
                        THEN [idx |-> EntryIdx(i, dh),
                              level |-> rp_col[EntryIdx(i, dh)],
                              close |-> closes[EntryIdx(i, dh)]]
                        ELSE NoLookup

\* one more bar goes through the first run and through the second run
ReplayBar ==
    /\ i \in ReplayIndex
    /\ \E r \in Bars : Step(r) /\ ReplaySignalPass(r)
    /\ UNCHANGED <<optVars, statelessVars, auxVars>>

NextReplay == ReplayBar

SpecReplay == InitReplay /\ [][NextReplay]_vars

\* the second run is a run under any of the names, on a df that no run or a
\* run has processed; the first run is the run named 'breakout' or 'pullback'
InitDispatch ==
    /\ strategy_type \in StrategyTypes
    /\ initial_cash \in InitialCash
    /\ SimInit
    /\ LiveIdle
    /\ SizerIdle
    /\ rp_strategy_name \in StrategyNames
    /\ rp_col \in {[k \in ReplayIndex |-> l] : l \in {NoLevel, "R1"}}
    /\ rp_close = [k \in ReplayIndex |-> NaN]
    /\ rp_position_open = FALSE
    /\ rp_days_held = 0
    /\ rp_entries_i = FALSE
    /\ rp_exits_i = FALSE
    /\ rp_chk = NoChk
    /\ rp_entry = NoLookup
    /\ rp_lookup = NoLookup
    /\ OptIdle
    /\ StatelessIdle
    /\ AuxIdle

SpecDispatch == InitDispatch /\ [][NextReplay]_vars

-----------------------------------------------------------------------------
(* optimize.py: study.optimize runs objective for several trials in threads
   (n_jobs=10).  objective stores the trial's parameters with setattr on the
   strategy CLASS and then runs Backtest(df, strategy_cls).run(); the strategy
   instance reads self.n_sl_r1, ... on every bar that signals, which resolves
   to the class attribute.  The threads interleave between any two steps. *)

\* the items of params in the order of the dict (lines 15-19), R1 only
ParamKeys == <<"n_sl_r1", "n_tp_r1", "n_days_r1">>

\* values trial.suggest_float / suggest_int can return (multiples in tenths)
Suggested == [n_sl_r1 : {3, 10}, n_tp_r1 : {8, 18}, n_days_r1 : {1, 6}]

\* the bars of df on which the strategy signals during one bt.run()
RunBars == 1 .. 2

coreVars == <<strategy_type, initial_cash, simVars, liveVars, sizerVars>>

InitOptimize ==
    /\ strategy_type = "breakout"
    /\ initial_cash \in InitialCash
    /\ SimInit
    /\ LiveIdle
    /\ SizerIdle
    /\ ReplayIdle
    /\ opt_cls = BreakoutDefaults
    /\ opt_pc = [t \in Trials |-> "suggest"]
    /\ opt_params = [t \in Trials |-> NoParams]
    /\ opt_key = [t \in Trials |-> 0]
    /\ opt_bars = [t \in Trials |-> 0]
    /\ opt_read = [t \in Trials |-> NoParams]
    /\ StatelessIdle
    /\ AuxIdle

\* lines 15-30: params = {... trial.suggest_*() ...}
Suggest(t) ==
    /\ opt_pc[t] = "suggest"
    /\ \E ps \in Suggested : opt_params' = [opt_params EXCEPT ![t] = ps]
    /\ opt_pc' = [opt_pc EXCEPT ![t] = "setattr"]
    /\ UNCHANGED <<coreVars, replayVars, statelessVars, auxVars,
                   opt_cls, opt_key, opt_bars, opt_read>>

\* lines 78-79: one iteration of  for k, v in params.items(): setattr(strategy_cls, k, v)
SetAttr(t) ==
    /\ opt_pc[t] = "setattr"
    /\ LET k == ParamKeys[opt_key[t] + 1]
       IN  opt_cls' = [opt_cls EXCEPT ![k] = opt_params[t][k]]
    /\ opt_key' = [opt_key EXCEPT ![t] = @ + 1]
    /\ opt_pc' = [opt_pc EXCEPT ![t] =
                     IF opt_key[t] + 1 = Len(ParamKeys) THEN "run" ELSE "setattr"]
    /\ UNCHANGED <<coreVars, replayVars, statelessVars, auxVars,
                   opt_params, opt_bars, opt_read>>

\* lines 82-83, one signalling bar of bt.run(): Breakout.get_params
\* (backtest.py lines 122-130) reads self.n_sl_r1, self.n_tp_r1, self.n_days_r1
RunBar(t) ==
    /\ opt_pc[t] = "run"
    /\ opt_read' = [opt_read EXCEPT ![t] = opt_cls]
    /\ opt_bars' = [opt_bars EXCEPT ![t] = @ + 1]
    /\ opt_pc' = [opt_pc EXCEPT ![t] =
                     IF opt_bars[t] + 1 >= Cardinality(RunBars)
                     THEN "done" ELSE "run"]
    /\ UNCHANGED <<coreVars, replayVars, statelessVars, auxVars,
                   opt_cls, opt_params, opt_key>>

NextOptimize == \E t \in Trials : Suggest(t) \/ SetAttr(t) \/ RunBar(t)

SpecOptimize == InitOptimize /\ [][NextOptimize]_vars

-----------------------------------------------------------------------------
(* A live generator of LiveSignalStrategy called on two series that end in
   the same bar, with the same cash. *)

\* bars that can precede the last bar of a series
EarlierBars == { MkBar(s, 20, "r3") : s \in Shapes }

\* df.iloc[-1]  (lines 363, 417, 476)
LiveLatestFirst(df) == df[1]

LiveLatest(df) == df[Len(df)]

\* the record the generator named g returns for series df and cash c
LiveRecord(g, df, c) ==
    CASE g = "BREAKOUT" -> generate_breakout_signal(LiveLatest(df), c)
      [] g = "RESISTANCE_RETEST"
           -> generate_resistance_retest_signal(LiveLatest(df), c)
      [] g = "PULLBACK" -> generate_pullback_signal(LiveLatest(df), c)

InitStateless ==
    /\ strategy_type = "breakout"
    /\ initial_cash \in LiveCash
    /\ SimInit
    /\ LiveIdle
    /\ SizerIdle
    /\ ReplayIdle
    /\ OptIdle
    /\ st_gen \in {"BREAKOUT", "RESISTANCE_RETEST", "PULLBACK"}
    /\ \E last \in LiveBars :
          st_df \in [Calls -> {<<last>>} \cup {<<e, last>> : e \in EarlierBars}]
    /\ st_rec = [x \in Calls |-> NoSignal]
    /\ AuxIdle

\* the generator is called on series x; it assigns to nothing but its locals
CallGenerator(x) ==
    /\ st_rec[x] = NoSignal
    /\ st_rec' = [st_rec EXCEPT ![x] = LiveRecord(st_gen, st_df[x], initial_cash)]
    /\ UNCHANGED <<coreVars, replayVars, optVars, auxVars, st_gen, st_df>>

NextStateless == \E x \in Calls : CallGenerator(x)

SpecStateless == InitStateless /\ [][NextStateless]_vars

-----------------------------------------------------------------------------
(* Trade statistics of run_realistic_backtest (lines 347-365) on a trade log *)

mainVars == <<coreVars, replayVars, optVars, statelessVars>>

\* pnl of a closed trade
PnLs == {-200, -100, 0, 100, 300}

\* trades_df[trades_df['pnl'] > 0]['pnl'].sum()
RECURSIVE SumWinning(_)
SumWinning(log) ==
    IF log = <<>> THEN 0
    ELSE (IF Head(log) > 0 THEN Head(log) ELSE 0) + SumWinning(Tail(log))

\* trades_df[trades_df['pnl'] < 0]['pnl'].sum()
RECURSIVE SumLosing(_)
SumLosing(log) ==
    IF log = <<>> THEN 0
    ELSE (IF Head(log) < 0 THEN Head(log) ELSE 0) + SumLosing(Tail(log))

\* (trades_df['pnl'] > 0).sum()
RECURSIVE CountWinning(_)
CountWinning(log) ==
    IF log = <<>> THEN 0
    ELSE (IF Head(log) > 0 THEN 1 ELSE 0) + CountWinning(Tail(log))

\* a / b on floats with a >= 0, b >= 0
FloatDiv(a, b) ==
    IF b # 0 THEN Ratio(a, b)
    ELSE IF a = 0 THEN NotANumber ELSE Inf

\* line 349
win_rate(log) == Ratio(100 * CountWinning(log), Len(log))

\* lines 352-354
ProfitFactorUnguarded(log) == FloatDiv(SumWinning(log), Abs(SumLosing(log)))

profit_factor(log) ==
    LET winning_trades == SumWinning(log)
        losing_trades  == Abs(SumLosing(log))
    IN  IF losing_trades > 0 THEN FloatDiv(winning_trades, losing_trades)
        ELSE Inf

\* lines 347-365
TradeStatistics(log) ==
    IF log # <<>>
    THEN [computed |-> TRUE, win_rate |-> win_rate(log),
          profit_factor |-> profit_factor(log)]
    ELSE [computed |-> TRUE, win_rate |-> Ratio(0, 1),
          profit_factor |-> Ratio(0, 1)]

InitStats ==
    /\ strategy_type = "breakout"
    /\ initial_cash \in InitialCash
    /\ SimInit
    /\ LiveIdle
    /\ SizerIdle
    /\ ReplayIdle
    /\ OptIdle
    /\ StatelessIdle
    /\ AuxIdle

\* trade_log.append (line 314); a trade takes an entry bar and an exit bar
AppendTrade ==
    /\ tl_stats = NoStats
    /\ 2 * (Len(tl_pnl) + 1) <= MaxBars
    /\ \E p \in PnLs : tl_pnl' = Append(tl_pnl, p)
    /\ UNCHANGED <<mainVars, fwVars, runVars, fetchVars, tl_stats>>

Summarize ==
    /\ tl_stats = NoStats
    /\ tl_stats' = TradeStatistics(tl_pnl)
    /\ UNCHANGED <<mainVars, fwVars, runVars, fetchVars, tl_pnl>>

NextStats == AppendTrade \/ Summarize

SpecStats == InitStats /\ [][NextStats]_vars

-----------------------------------------------------------------------------
(* backtest.run (backtest.py lines 425-510): the params file, the class
   attributes it overrides, and the Backtest built from strategy_cls *)

\* contents of a params file: for each level-1 key of the strategy its value,
\* NaN when the file does not hold the key
ParamsFiles == [exists : {TRUE}, n_sl : {NaN, 3, 15}, n_tp : {NaN, 9, 30},
                n_days : {NaN, 2, 9}]

\* best.get(key, default) for every key
BestOver(best, defaults) ==
    [k \in DOMAIN defaults |-> IF NotNa(best[k]) THEN best[k] ELSE defaults[k]]

InitRun ==
    /\ strategy_type = "breakout"
    /\ initial_cash \in InitialCash
    /\ SimInit
    /\ LiveIdle
    /\ SizerIdle
    /\ ReplayIdle
    /\ OptIdle
    /\ StatelessIdle
    /\ StatsIdle
    /\ FetchIdle
    /\ FwIdle
    /\ run_strategy \in {"breakout", "pullback", "resistance_retest"}
    /\ run_best \in {MissingFile} \cup ParamsFiles
    /\ strategy_cls = "None"
    /\ cls_attrs = ClassDefaults
    /\ run_pc = "start"
    /\ run_outcome = "none"

\* lines 435-500: the try block.  open() raises FileNotFoundError before any
\* assignment to strategy_cls; the assignments of the pullback branch are
\* commented out
LoadParams ==
    /\ run_pc = "start"
    /\ run_pc' = "loaded"
    /\ IF ~run_best.exists
       THEN UNCHANGED <<strategy_cls, cls_attrs>>
       ELSE LET c == StrategyClass(run_strategy)
            IN  /\ strategy_cls' = c
                /\ cls_attrs' =
                      IF run_strategy = "pullback" THEN cls_attrs
                      ELSE [cls_attrs EXCEPT ![c] = BestOver(run_best, cls_attrs[c])]
    /\ UNCHANGED <<mainVars, fwVars, statsVars, fetchVars, run_strategy, run_best,
                   run_outcome>>

\* lines 502-510: Backtest(df, strategy_cls, ...) raises TypeError unless
\* strategy_cls is a Strategy subclass; otherwise bt.run() gives the result
RunBacktest ==
    /\ run_pc = "loaded"
    /\ run_pc' = "done"
    /\ run_outcome' = IF strategy_cls = "None" THEN "TypeError" ELSE "returned"
    /\ UNCHANGED <<mainVars, fwVars, statsVars, fetchVars, run_strategy, run_best,
                   strategy_cls, cls_attrs>>

NextRun == LoadParams \/ RunBacktest

SpecRun == InitRun /\ [][NextRun]_vars

-----------------------------------------------------------------------------
(* live_signal.py: check_breakout_signal and check_pullback_signal on the
   last bar, beside the simulator on the same bar *)

\* calculate_position_size of live_signal.py: (shares, investment)
live_signal_position_size(available_cash, price, sl) ==
    LET risk_per_share == Abs(price - sl)
        final_shares == Min(SharesByRisk(available_cash, risk_per_share),
                            SharesByCash(available_cash, price))
    IN  IF risk_per_share <= 0
        THEN [shares |-> 0, investment |-> 0]
        ELSE [shares |-> final_shares, investment |-> final_shares * price]

check_breakout_signal(r, c) ==
    LET r1_bo == Gt(r.close, r.R1) /\ Gt(r.rsi14, 35) /\ Gt(r.close, r.ema10)
        r2_bo == Gt(r.close, r.R2) /\ Gt(r.rsi14, 40) /\ Gt(r.close, r.ema20)
        r3_bo == Gt(r.close, r.R3) /\ Gt(r.rsi14, 40)
        breakout_signal ==
            /\ r1_bo \/ r2_bo \/ r3_bo
            /\ NotNa(r.R1) /\ NotNa(r.R2) /\ NotNa(r.R3) /\ NotNa(r.atr14)
        level == IF r3_bo THEN "R3" ELSE IF r2_bo THEN "R2" ELSE "R1"
        sl    == CASE level = "R3" -> Offset(r.close, -12, r.atr14)
                   [] level = "R2" -> Offset(r.close, -10, r.atr14)
                   [] level = "R1" -> Offset(r.close, -8, r.atr14)
        tp    == CASE level = "R3" -> Offset(r.close, 25, r.atr14)
                   [] level = "R2" -> Offset(r.close, 20, r.atr14)
                   [] level = "R1" -> Offset(r.close, 15, r.atr14)
        days  == CASE level = "R3" -> 8 [] level = "R2" -> 6 [] level = "R1" -> 4
        size  == live_signal_position_size(c, r.close, sl)
    IN  IF breakout_signal
        THEN [strategy |-> "BREAKOUT", signal |-> "BUY",
              entry_price |-> r.close, entry_level |-> level,
              stop_loss |-> sl, take_profit |-> tp,
              shares |-> size.shares, investment |-> size.investment,
              risk_amount |-> size.shares * (r.close - sl),
              max_hold_days |-> days]
        ELSE [NoSignal EXCEPT !.strategy = "BREAKOUT", !.signal = "HOLD"]

CheckPullbackSignalAboveR2(r, c) ==
    [NoSignal EXCEPT !.strategy = "PULLBACK",
                     !.signal = IF /\ \/ r1_triggered(r) /\ Gt(r.close, r.ema20)
                                      \/ /\ r2_triggered(r)
                                         /\ Gt(r.close, r.R2)
                                         /\ Gt(r.close, r.ema20)
                                   /\ Lt(r.rsi14, 70)
                                   /\ NotNa(r.R1) /\ NotNa(r.R2)
                                   /\ NotNa(r.atr14)
                                THEN "BUY" ELSE "HOLD",
                     !.entry_level = IF r1_triggered(r) /\ ~r2_triggered(r)
                                     THEN "R1" ELSE "R2"]

check_pullback_signal(r, c) ==
    LET pullback_signal ==
            /\ \/ /\ LePct(r.low, r.R1, 101)
                  /\ GePct(r.high, r.R1, 99)
                  /\ Gt(r.close, r.R1)
                  /\ Gt(r.close, r.ema20)
               \/ /\ LePct(r.low, r.R2, 102)
                  /\ GePct(r.high, r.R2, 98)
                  /\ Gt(r.close, r.ema20)
            /\ Lt(r.rsi14, 70)
            /\ NotNa(r.R1) /\ NotNa(r.R2) /\ NotNa(r.atr14)
        r1_tr == /\ LePct(r.low, r.R1, 101)
                 /\ GePct(r.high, r.R1, 99)
                 /\ Gt(r.close, r.R1)
        r2_tr == LePct(r.low, r.R2, 102) /\ GePct(r.high, r.R2, 98)
        level == IF r1_tr /\ ~r2_tr THEN "R1" ELSE "R2"
        price == IF level = "R1" THEN r.R1 ELSE r.R2
        sl    == Offset(price, IF level = "R1" THEN -10 ELSE -15, r.atr14)
        tp    == Offset(price, IF level = "R1" THEN 20 ELSE 25, r.atr14)
        size  == live_signal_position_size(c, price, sl)
    IN  IF pullback_signal
        THEN [strategy |-> "PULLBACK", signal |-> "BUY",
              entry_price |-> price, entry_level |-> level,
              stop_loss |-> sl, take_profit |-> tp,
              shares |-> size.shares, investment |-> size.investment,
              risk_amount |-> size.shares * (price - sl),
              max_hold_days |-> IF level = "R1" THEN 6 ELSE 8]
        ELSE [NoSignal EXCEPT !.strategy = "PULLBACK", !.signal = "HOLD"]

CheckBreakout == LiveGenerate(check_breakout_signal(latest, initial_cash))

CheckPullback == LiveGenerate(check_pullback_signal(latest, initial_cash))

NextDuplicate == CheckBreakout \/ CheckPullback \/ BacktestLatest

SpecDuplicate == InitLive /\ [][NextDuplicate]_vars

-----------------------------------------------------------------------------
(* fetch_data.py: load_from_cache (lines 30-73) and load_ohlcv (lines
   116-178) *)

\* load_from_cache: "None" or the data of the cache file.  read_csv failing
\* with OSError, EmptyDataError or ParserError is the unreadable file.
LoadFromCacheInclusiveEnd(cfg, now, file) ==
    IF ~file.exists THEN "None"
    ELSE IF /\ now.weekday < 5
            /\ cfg.trading_start_hour <= now.hour
            /\ now.hour <= cfg.trading_end_hour
            /\ file.age > cfg.cache_refresh_interval_minutes * 60
         THEN "None"
         ELSE IF file.readable THEN file.data ELSE "None"

load_from_cache(cfg, now, file) ==
    LET is_weekday == now.weekday < 5
        is_trading_hours == /\ cfg.trading_start_hour <= now.hour
                            /\ now.hour < cfg.trading_end_hour
        refresh_threshold == cfg.cache_refresh_interval_minutes * 60
    IN  IF ~file.exists THEN "None"
        ELSE IF is_weekday /\ is_trading_hours /\ file.age > refresh_threshold
             THEN "None"
             ELSE IF file.readable THEN file.data ELSE "None"

InitFetch ==
    /\ strategy_type = "breakout"
    /\ initial_cash \in InitialCash
    /\ SimInit
    /\ LiveIdle
    /\ SizerIdle
    /\ ReplayIdle
    /\ OptIdle
    /\ StatelessIdle
    /\ StatsIdle
    /\ RunIdle
    /\ FwIdle
    /\ config \in {DefaultConfig,
                    [DefaultConfig EXCEPT !.cache_refresh_interval_minutes = 30],
                    [DefaultConfig EXCEPT !.trading_start_hour = 0,
                                          !.trading_end_hour = 23]}
    /\ now_wib \in [weekday : {0, 4, 5, 6}, hour : {0, 8, 9, 17, 18, 22, 23}]
    /\ cache_file \in {NoCacheFile}
                       \cup [exists : {TRUE},
                             age : {0, 600, 601, 1800, 1801, 100000},
                             readable : BOOLEAN, data : {"cached"}]
    /\ api \in {"ok", "no_id", "empty", "caught", "uncaught"}
    /\ fetch_pc = "start"
    /\ cached_data = "pending"
    /\ fetch_result = "pending"

\* lines 126-129
TryCache ==
    /\ fetch_pc = "start"
    /\ cached_data' = load_from_cache(config, now_wib, cache_file)
    /\ IF cached_data' # "None"
       THEN fetch_pc' = "done" /\ fetch_result' = cached_data'
       ELSE fetch_pc' = "live" /\ UNCHANGED fetch_result
    /\ UNCHANGED <<mainVars, fwVars, statsVars, runVars, config, now_wib, cache_file,
                   api>>

\* lines 131-178.  api: "no_id" get_investiny_id gives None; "empty"
\* historical_data gives nothing; "caught" a ValueError, KeyError or OSError
\* is raised; "uncaught" an exception of another type is raised.
FetchLive ==
    /\ fetch_pc = "live"
    /\ fetch_pc' = "done"
    /\ fetch_result' =
          CASE api = "ok" -> "live"
            [] api \in {"no_id", "empty"} -> "None"
            [] api = "caught" ->
                 IF cache_file.exists /\ cache_file.readable
                 THEN cache_file.data ELSE "None"
            [] api = "uncaught" -> "raised"
    /\ cache_file' = IF api = "ok"
                     THEN [exists |-> TRUE, age |-> 0, readable |-> TRUE,
                           data |-> "live"]
                     ELSE cache_file
    /\ UNCHANGED <<mainVars, fwVars, statsVars, runVars, config, now_wib, api,
                   cached_data>>

NextFetch == TryCache \/ FetchLive

SpecFetch == InitFetch /\ [][NextFetch]_vars

-----------------------------------------------------------------------------
(* backtest.py: the Strategy classes Breakout, Pullback and ResistanceRetest
   under Backtest(exclusive_orders=True, trade_on_close=False).  On every bar
   the broker first handles its orders and the stops of the position, then
   the strategy's next() runs. *)

FwClasses == {"Breakout", "Pullback", "ResistanceRetest"}

\* the levels get_level returns (lines 115-120, 264-269, 390-395)
FwLevels(cls) == IF cls = "Pullback" THEN {"s1", "s2", "s3"}
                 ELSE {"r1", "r2", "r3"}

\* n_sl, n_tp (in tenths) and n_days of a level (lines 14-25, 146-154,
\* 300-308)
LevelAttrs(cls, level) ==
    CASE cls = "Breakout" ->
           CASE level = "r1" -> [n_sl |-> 6, n_tp |-> 12, n_days |-> 3]
             [] level = "r2" -> [n_sl |-> 10, n_tp |-> 20, n_days |-> 6]
             [] OTHER -> [n_sl |-> 12, n_tp |-> 25, n_days |-> 8]
      [] cls = "Pullback" ->
           CASE level = "s1" -> [n_sl |-> 8, n_tp |-> 18, n_days |-> 5]
             [] level = "s2" -> [n_sl |-> 12, n_tp |-> 22, n_days |-> 7]
             [] OTHER -> [n_sl |-> 15, n_tp |-> 28, n_days |-> 10]
      [] cls = "ResistanceRetest" ->
           CASE level = "r1" -> [n_sl |-> 10, n_tp |-> 20, n_days |-> 6]
             [] level = "r2" -> [n_sl |-> 15, n_tp |-> 25, n_days |-> 8]
             [] OTHER -> [n_sl |-> 20, n_tp |-> 30, n_days |-> 10]

\* what a bar gives has_signal(): whether any condition is true, the level
\* get_level returns, atr14 and the price the level's offsets start from
\* (Close for Breakout, the pivot of the level for the other two)
FwBars == [has_signal : BOOLEAN, level : {"r1", "r2", "r3", "s1", "s2", "s3"},
           atr : {20, 50}, price : {1000}]

get_params(cls, level, atr, price) ==
    LET a == LevelAttrs(cls, level)
    IN  [stop_loss |-> Offset(price, 0 - a.n_sl, atr),
         take_profit |-> Offset(price, a.n_tp, atr),
         max_days |-> a.n_days,
         entry_price |-> IF cls = "Breakout" THEN None ELSE price]

\* the attributes after has_signal() returned True on bar b
has_signal(cls, self, b) ==
    LET params == get_params(cls, b.level, b.atr, b.price)
    IN  [self EXCEPT !.stop_loss = params.stop_loss,
                     !.take_profit = params.take_profit,
                     !.max_days = params.max_days,
                     !.entry_price = params.entry_price]

\* self.days_in_trade = 0 after self.buy (lines 41, 168, 325)
DaysInTradeKept(days) == days

DaysInTradeAtBuy(days) == 0

\* self.buy(limit=, sl=, tp=) with the attributes has_signal() has set; under
\* exclusive_orders the new order takes the place of the order still waiting
buy(self) ==
    [pending |-> TRUE, limit |-> self.entry_price, sl |-> self.stop_loss,
     tp |-> self.take_profit, max_days |-> self.max_days]

\* what the broker does on a bar before next() runs
BrokerOutcomes == {"quiet", "fill", "fill_stop", "drop", "stop", "close"}

\* quiet: nothing happens, a limit order keeps waiting; fill: the waiting
\* order opens the position; fill_stop: it does and a stop closes the position
\* on the same bar; drop: the order is removed unfilled; stop: sl or tp closes
\* the position; close: the requested close executes at the open
BrokerCan(outcome) ==
    CASE outcome = "quiet" -> ~fw_closing
      [] outcome \in {"fill", "fill_stop", "drop"} -> fw_order.pending
      [] outcome = "stop" -> fw_position.open /\ ~fw_closing
      [] outcome = "close" -> fw_closing

BrokerNext(outcome) ==
    CASE outcome = "quiet" ->
           [position |-> fw_position, order |-> fw_order, seen |-> fw_seen]
      [] outcome = "fill" ->
           [position |-> [open |-> TRUE, sl |-> fw_order.sl, tp |-> fw_order.tp,
                          max_days |-> fw_order.max_days],
            order |-> NoOrder, seen |-> 0]
      [] outcome \in {"fill_stop", "drop"} ->
           [position |-> Flat, order |-> NoOrder, seen |-> 0]
      [] outcome \in {"stop", "close"} ->
           [position |-> Flat, order |-> fw_order, seen |-> 0]

\* Breakout.next, Pullback.next, ResistanceRetest.next on bar b, after the
\* broker (lines 35-45, 162-172, 319-329)
StrategyNext(broker, b) ==
    IF ~broker.position.open
    THEN IF b.has_signal
         THEN LET self == has_signal(fw_cls, fw_self, b)
              IN  /\ fw_self' = [self EXCEPT !.days_in_trade =
                                     DaysInTradeAtBuy(self.days_in_trade)]
                  /\ fw_order' = buy(self)
                  /\ fw_closing' = FALSE
                  /\ fw_seen' = broker.seen
                  /\ fw_event' = "buy"
         ELSE /\ fw_order' = broker.order
              /\ fw_closing' = FALSE
              /\ fw_seen' = broker.seen
              /\ fw_event' = "none"
              /\ UNCHANGED fw_self
    ELSE LET days == fw_self.days_in_trade + 1
         IN  /\ fw_order' = broker.order
             /\ fw_seen' = broker.seen + 1
             /\ IF fw_self.max_days = None
                THEN \* int >= None raises TypeError
                     /\ fw_self' = [fw_self EXCEPT !.days_in_trade = days]
                     /\ fw_closing' = FALSE
                     /\ fw_event' = "raised"
                ELSE IF days >= fw_self.max_days
                THEN /\ fw_self' = [fw_self EXCEPT !.days_in_trade = 0]
                     /\ fw_closing' = TRUE
                     /\ fw_event' = "close"
                ELSE /\ fw_self' = [fw_self EXCEPT !.days_in_trade = days]
                     /\ fw_closing' = FALSE
                     /\ fw_event' = "none"

InitFramework ==
    /\ strategy_type = "breakout"
    /\ initial_cash \in InitialCash
    /\ SimInit
    /\ LiveIdle
    /\ SizerIdle
    /\ ReplayIdle
    /\ OptIdle
    /\ StatelessIdle
    /\ StatsIdle
    /\ RunIdle
    /\ FetchIdle
    /\ fw_cls \in FwClasses
    /\ fw_self = InitAttrs
    /\ fw_position = Flat
    /\ fw_order = NoOrder
    /\ fw_closing = FALSE
    /\ fw_seen = 0
    /\ fw_event = "none"

\* one bar of Backtest.run: the broker, then next()
FrameworkBar ==
    /\ fw_event # "raised"
    /\ \E outcome \in BrokerOutcomes :
         \E b \in FwBars :
            /\ b.level \in FwLevels(fw_cls)
            /\ BrokerCan(outcome)
            /\ fw_position' = BrokerNext(outcome).position
            /\ StrategyNext(BrokerNext(outcome), b)
    /\ UNCHANGED <<mainVars, statsVars, runVars, fetchVars, fw_cls>>

SpecFramework == InitFramework /\ [][FrameworkBar]_vars

-----------------------------------------------------------------------------
(* The two position sizers on the same arguments *)

InitSizer ==
    /\ strategy_type = "breakout"
    /\ initial_cash \in InitialCash
    /\ SimInit
    /\ LiveIdle
    /\ sz_args \in SizerArgs
    /\ sz_realistic = NotSized
    /\ sz_live = NotSized
    /\ OtherIdle

SizeRealistic ==
    /\ sz_realistic = NotSized
    /\ sz_realistic' = calculate_realistic_position_size(
                           sz_args.cash, sz_args.entry_price, sz_args.stop_loss)
    /\ UNCHANGED <<strategy_type, initial_cash, simVars, liveVars, sz_args, sz_live,
                   otherVars>>

SizeLive ==
    /\ sz_live = NotSized
    /\ sz_live' = calculate_position_size(
                      sz_args.cash, sz_args.entry_price, sz_args.stop_loss)
    /\ UNCHANGED <<strategy_type, initial_cash, simVars, liveVars, sz_args,
                   sz_realistic, otherVars>>

NextSizer == SizeRealistic \/ SizeLive

SpecSizer == InitSizer /\ [][NextSizer]_vars

-----------------------------------------------------------------------------
(* Properties of run_realistic_backtest, checked under Spec *)

\* the bar processed last was a bar on which pass 1 was holding a position
HeldBar == chk.checked

\* the bar processed last carried a trigger of the active strategy
TriggerBar == i >= 1 /\ entry_condition(strategy_type, row)

\* C1: single-position invariant.  shares_held > 0 only while position_open,
\* and a bar that carries a trigger while a position is open opens nothing:
\* the stored entry price and date stay, and unless that bar closes the
\* position, cash and shares_held stay too.
C1_SinglePosition ==
    /\ [](shares_held > 0 => position_open)
    /\ [][ (position_open /\ i' = i + 1 /\ entry_condition(strategy_type, row'))
            => /\ event' \in {"none", "exit"}
               /\ entry_price' = entry_price
               /\ entry_date' = entry_date
               /\ (event' = "none" => /\ position_open'
                                      /\ cash' = cash
                                      /\ shares_held' = shares_held) ]_vars

C1_Witness ==
    position_open /\ HeldBar /\ TriggerBar /\ event = "none" /\ shares_held > 0

\* C2: no margin.  cash is never negative, and the investment of every entry
\* (shares x entry price) is at most the cash held just before that entry.
C2_NoMargin ==
    /\ cash >= 0
    /\ (event = "entry" => shares_held * entry_price <= cash_before)

C2_Witness ==
    event = "entry" /\ shares_held * entry_price > 0 /\ trade_count >= 1

\* C3: exact capital accounting.  An entry debits shares x entry_price, an
\* exit credits shares x exit_price and zeroes shares_held, the recorded pnl
\* is shares x (exit_price - entry_price), and whenever no position is open
\* cash = initial_cash + the sum of the recorded pnl.
C3_CapitalAccounting ==
    /\ (event = "entry" => /\ cash = cash_before - shares_held * entry_price
                           /\ shares_held > 0)
    /\ (event = "exit" => /\ cash = cash_before + appended.shares * appended.exit_price
                          /\ shares_held = 0
                          /\ appended.pnl = appended.shares *
                                 (appended.exit_price - appended.entry_price))
    /\ (~position_open => cash = initial_cash + trade_pnl)

C3_Witness ==
    event = "exit" /\ trade_count >= 2 /\ appended.pnl < 0 /\ trade_pnl > 0

C5_ExitPriceByReason ==
    event = "exit" =>
        /\ (exit_branch = "stop_loss"
              => appended.exit_price \in {chk.sl_price, sl_price})
        /\ (exit_branch = "take_profit"
              => appended.exit_price \in {chk.tp_price, tp_price})
        /\ (exit_branch = "time_exit" => appended.exit_price = row.close)

\* C6: frozen entry decision.  The stop and the target tested on every bar of
\* a position's lifetime are the ones computed on its entry bar.
C6_FrozenEntryDecision ==
    (HeldBar /\ (position_open \/ event = "exit"))
        => /\ chk.sl_price = sl_price
           /\ chk.tp_price = tp_price

\* C8: max-hold exit.  A position none of whose bars after the entry reached
\* its stop or its target is closed exactly max_hold_days bars after the entry
\* bar, at that bar's close: it is not closed before, and not held beyond.
C8_MaxHoldExit ==
    /\ (event = "exit" /\ ~touched)
          => /\ appended.exit_date - appended.entry_date = chk.max_days
             /\ appended.exit_price = row.close
    /\ (position_open /\ HeldBar /\ ~touched) => chk.days_held < chk.max_days

\* C10: zero-risk entry absorbed.  On a triggering bar whose stop equals the
\* entry price (ATR = 0) nothing is raised, the bar is a non-entry (cash,
\* shares_held and the position flag unchanged) and the run goes on.
C10_ZeroRiskAbsorbed ==
    (entries_i /\ event # "none" /\ sl_price = row.close)
        => /\ pc # "raised"
           /\ event = "rejected"
           /\ cash = cash_before /\ shares_held = 0 /\ ~position_open

-----------------------------------------------------------------------------
(* Properties of the live generator and of the sizers *)

\* C7: live/backtest parity, checked under SpecParity.  The live generator
\* reports BUY on a bar exactly when the simulator, flat and holding the same
\* cash, opens a position on that bar.
C7_LiveBacktestParity ==
    (i = 1 /\ live # NoSignal) => (live.signal = "BUY" <=> event = "entry")

\* n = floor(min(0.02 x cash / |entry - stop|, 0.95 x cash / entry))
IsFloorMin(n, a) ==
    LET risk == Abs(a.entry_price - a.stop_loss)
    IN  /\ n * 100 * risk <= 2 * a.cash
        /\ n * 100 * a.entry_price <= 95 * a.cash
        /\ \/ (n + 1) * 100 * risk > 2 * a.cash
           \/ (n + 1) * 100 * a.entry_price > 95 * a.cash

\* C9: sizer formula, checked under SpecSizer.  For a stop different from the
\* entry price both sizers return floor(min(0.02 x cash / |entry - stop|,
\* 0.95 x cash / entry)) shares; cash 1,000,000, entry 1,000, stop 980 gives 950.
C9_SizerFormula ==
    sz_args.stop_loss # sz_args.entry_price =>
        /\ sz_realistic # NotSized =>
              /\ sz_realistic.kind = "tuple"
              /\ IsFloorMin(sz_realistic.shares, sz_args)
        /\ sz_live # NotSized => IsFloorMin(sz_live.shares, sz_args)
        /\ (sz_live # NotSized /\ sz_realistic # NotSized
              /\ sz_args = [cash |-> 1000000, entry_price |-> 1000, stop_loss |-> 980])
             => sz_realistic.shares = 950 /\ sz_live.shares = 950

-----------------------------------------------------------------------------
(* Properties of the level selection, the parameters and the entry price,
   checked under SpecLive *)

\* pass 2 went through the entry body (lines 248-303) on the bar processed last
EntryAttempted == event \in {"entry", "rejected", "raised"}

\* level is the strongest breakout level whose trigger is true on bar r
IsStrongestBreakout(level, r) ==
    LET st == check_breakout_conditions(r)
    IN  /\ st.r3_breakout => level = "R3"
        /\ (~st.r3_breakout /\ st.r2_breakout) => level = "R2"
        /\ (~st.r3_breakout /\ ~st.r2_breakout) => level = "R1"

\* C11: breakout tie-break.  The level selected on a breakout bar is R3
\* whenever the R3 trigger is true, otherwise R2 whenever the R2 trigger is
\* true, otherwise R1 (so R1 and R2 together select R2, R2 and R3 together
\* select R3), in the live generator's record, in the level pass 1 stores and
\* in the level pass 2 enters with.
C11_BreakoutTieBreak ==
    /\ (live.strategy = "BREAKOUT" /\ live.signal = "BUY")
          => IsStrongestBreakout(live.entry_level, latest)
    /\ (strategy_type = "breakout" /\ i >= 1 /\ entries_i)
          => /\ IsStrongestBreakout(triggered_level, row)
             /\ EntryAttempted => IsStrongestBreakout(entry_level, row)

C11_Witness ==
    /\ live.strategy = "BREAKOUT" /\ live.signal = "BUY"
    /\ check_breakout_conditions(latest).r2_breakout
    /\ check_breakout_conditions(latest).r3_breakout
    /\ live.entry_level = "R3"
    /\ strategy_type = "breakout" /\ i = 1 /\ event = "entry"
    /\ entry_level = "R3" /\ triggered_level = "R3"

\* C12: pullback and retest level priority.  The level of a live pullback
\* signal is the first true trigger in the order S1, S2, S3; the level of a
\* live resistance-retest signal is R2 when both triggers are true, and R1
\* exactly when the R1 trigger is true and the R2 trigger is not.
C12_LevelPriority ==
    /\ (live.strategy = "PULLBACK" /\ live.signal = "BUY")
          => LET st == check_pullback_conditions(latest)
             IN  /\ st.s1_pullback => live.entry_level = "S1"
                 /\ (~st.s1_pullback /\ st.s2_pullback) => live.entry_level = "S2"
                 /\ (~st.s1_pullback /\ ~st.s2_pullback /\ st.s3_pullback)
                       => live.entry_level = "S3"
    /\ (live.strategy = "RESISTANCE_RETEST" /\ live.signal = "BUY")
          => LET st == check_resistance_retest_conditions(latest)
             IN  /\ (st.r1_triggered /\ st.r2_triggered) => live.entry_level = "R2"
                 /\ live.entry_level = "R1"
                       <=> (st.r1_triggered /\ ~st.r2_triggered)

C12_Witness ==
    /\ live.strategy = "PULLBACK" /\ live.signal = "BUY"
    /\ check_pullback_conditions(latest).s1_pullback
    /\ check_pullback_conditions(latest).s2_pullback
    /\ live.entry_level = "S1"

\* the table of ATR multiples (in tenths) and maximum holding days
ParameterTable(strategy, level) ==
    CASE strategy = "BREAKOUT" /\ level = "R1" -> [sl |-> 6, tp |-> 12, days |-> 3]
      [] strategy = "BREAKOUT" /\ level = "R2" -> [sl |-> 10, tp |-> 20, days |-> 6]
      [] strategy = "BREAKOUT" /\ level = "R3" -> [sl |-> 12, tp |-> 25, days |-> 8]
      [] strategy = "PULLBACK" /\ level = "S1" -> [sl |-> 8, tp |-> 18, days |-> 5]
      [] strategy = "PULLBACK" /\ level = "S2" -> [sl |-> 12, tp |-> 22, days |-> 7]
      [] strategy = "PULLBACK" /\ level = "S3" -> [sl |-> 15, tp |-> 28, days |-> 10]
      [] strategy = "RESISTANCE_RETEST" /\ level = "R1"
           -> [sl |-> 10, tp |-> 20, days |-> 6]
      [] strategy = "RESISTANCE_RETEST" /\ level = "R2"
           -> [sl |-> 15, tp |-> 25, days |-> 8]

\* stop, target and max_days are the table's for (strategy, level), from price
\* and atr
FollowsTable(strategy, level, price, atr, stop, target, max_days) ==
    LET t == ParameterTable(strategy, level)
    IN  /\ stop = Offset(price, 0 - t.sl, atr)
        /\ target = Offset(price, t.tp, atr)
        /\ max_days \in {t.days, NaN}

\* the table rows of the simulator's branch: its 'pullback' branch works on
\* the levels R1 and R2, the rows of the resistance retest
SimulatorRows ==
    IF strategy_type = "breakout" THEN "BREAKOUT" ELSE "RESISTANCE_RETEST"

\* C13: parameter table.  For every strategy and level the stop is
\* entry - SL x ATR, the target entry + TP x ATR and the maximum hold MaxDays,
\* with the multiples of the table: in the record of every live BUY signal, in
\* the stop and target the simulator computes on an entry bar, and in the
\* stop, target and maximum hold it tests on a held bar (taken with the ATR
\* the simulator uses there).
C13_ParameterTable ==
    /\ live.signal = "BUY"
          => FollowsTable(live.strategy, live.entry_level, live.entry_price,
                          latest.atr14, live.stop_loss, live.take_profit,
                          live.max_hold_days)
    /\ EntryAttempted
          => FollowsTable(SimulatorRows, entry_level, row.close, row.atr14,
                          sl_price, tp_price, NaN)
    /\ (i = 2 /\ HeldBar)
          => FollowsTable(SimulatorRows, SignalLevel(strategy_type, latest),
                          latest.close, row.atr14, chk.sl_price, chk.tp_price,
                          chk.max_days)

\* the price of a pivot level on bar r
LevelPrice(r, level) ==
    CASE level = "R1" -> r.R1
      [] level = "R2" -> r.R2
      [] level = "R3" -> r.R3
      [] level = "S1" -> r.S1
      [] level = "S2" -> r.S2
      [] level = "S3" -> r.S3

\* C14: entry price rule.  A breakout entry is priced at the bar's close; a
\* pullback or resistance-retest entry is priced at the triggered level
\* (S1/S2/S3 or R1/R2): in the live signal record, in the position the
\* simulator opens and in the trade record it appends.
C14_EntryPriceRule ==
    /\ (live.signal = "BUY" /\ live.strategy = "BREAKOUT")
          => live.entry_price = latest.close
    /\ (live.signal = "BUY" /\ live.strategy # "BREAKOUT")
          => live.entry_price = LevelPrice(latest, live.entry_level)
    /\ (event = "entry" /\ strategy_type = "breakout")
          => entry_price = row.close
    /\ (event = "entry" /\ strategy_type # "breakout")
          => entry_price = LevelPrice(row, entry_level)
    /\ (i = 2 /\ event = "exit" /\ strategy_type = "breakout")
          => appended.entry_price = latest.close
    /\ (i = 2 /\ event = "exit" /\ strategy_type # "breakout")
          => appended.entry_price = LevelPrice(latest, entry_level)

\* ATR or a pivot level the strategy reads is undefined on bar r
MissingIndicator(strategy, r) ==
    \/ IsNa(r.atr14)
    \/ strategy = "BREAKOUT" /\ (IsNa(r.R1) \/ IsNa(r.R2) \/ IsNa(r.R3))
    \/ strategy = "RESISTANCE_RETEST" /\ (IsNa(r.R1) \/ IsNa(r.R2))
    \/ strategy = "PULLBACK" /\ (IsNa(r.S1) \/ IsNa(r.S2) \/ IsNa(r.S3))

\* C15: missing indicators are absorbed in both paths.  On a bar where ATR or
\* a pivot level the strategy needs is NaN no trigger fires: every live
\* generator returns HOLD, and the simulator sets no entry, opens nothing,
\* raises nothing and goes on to the next bar.
C15_MissingIndicatorAbsorbed ==
    /\ (live # NoSignal /\ MissingIndicator(live.strategy, latest))
          => live.signal = "HOLD"
    /\ (i >= 1 /\ MissingIndicator(SimulatorRows, row))
          => /\ ~entries_i
             /\ ~EntryAttempted
             /\ pc = "loop"

-----------------------------------------------------------------------------
(* Properties of the bar loop of run_realistic_backtest, checked under Spec *)

\* pass 2 held no position when the bar processed last began
FlatAtStart == i >= 1 /\ (EntryAttempted \/ (event = "none" /\ ~position_open))

\* on bar r with cash c the strategy triggers and the sizer yields > 0 shares
\* with investment <= cash
EntryEnabled(r, c) ==
    /\ entry_condition(strategy_type, r)
    /\ LET ret == calculate_realistic_position_size(
                      c, r.close, EntryParams(strategy_type, r).sl_price)
       IN  ret.kind = "tuple" /\ ret.shares > 0 /\ ret.investment <= c

\* C16: entry is taken whenever enabled.  On every bar that begins with no
\* position held, on which the active strategy's trigger is true and the sizer
\* yields > 0 shares with investment <= cash, the simulator opens a position.
C16_EntryWhenEnabled ==
    (FlatAtStart /\ EntryEnabled(row, cash_before))
        => (event = "entry" /\ position_open /\ shares_held > 0)

\* C17: at most one of entry or exit per bar.  A bar that closes a position
\* (appends a trade) began with that position open and ends with none open,
\* a bar that opens a position appends no trade, pass 1 never flags a bar as
\* both entry and exit, and every trade record has exit_date > entry_date.
C17_OneActionPerBar ==
    /\ [][ i' = i + 1 =>
             /\ trade_count' # trade_count
                   => (position_open /\ ~position_open' /\ shares_held' = 0)
             /\ (~position_open /\ position_open')
                   => (trade_count' = trade_count /\ appended' = NoTrade) ]_vars
    /\ [](~(entries_i /\ exits_i))
    /\ [](event = "exit" => appended.exit_date > appended.entry_date)

C17_Witness ==
    /\ event = "exit" /\ TriggerBar /\ ~position_open
    /\ appended.exit_date = appended.entry_date + 1
    /\ EntryEnabled(row, cash)

\* C18: equity curve.  Every processed bar appends exactly one value, equal to
\* cash + shares_held x that bar's close with cash and shares_held taken as
\* they are when the bar begins (before its entry or exit); after n bars the
\* curve has n values.
C18_EquityCurve ==
    /\ [](pv_len = i)
    /\ [][ i' = i + 1 =>
             /\ pv_len' = pv_len + 1
             /\ pv_last' = cash + shares_held * row'.close ]_vars

C18_Witness ==
    /\ position_open /\ HeldBar /\ event = "none" /\ shares_held > 0
    /\ pv_len = i /\ i >= 3
    /\ pv_last = cash + shares_held * row.close
    /\ pv_last # initial_cash

\* the bar now processed applies neither an entry nor an exit: pass 2 is flat
\* and the bar is no accepted entry, or it holds a position and the bar is no
\* exit
NoTradeBar ==
    \/ ~position_open /\ ~(entries_i' /\ EntryEnabled(row', cash))
    \/ position_open /\ ~exits_i'

\* C19: frame condition on the portfolio state.  A bar that applies neither
\* an entry nor an exit leaves cash, shares_held, the stored entry price and
\* date and the trade log unchanged; the trade log only grows, by the one
\* record an exit appends, so the records it holds are not modified.
C19_PortfolioFrame ==
    /\ [][ (i' = i + 1 /\ NoTradeBar) =>
             /\ cash' = cash
             /\ shares_held' = shares_held
             /\ entry_price' = entry_price
             /\ entry_date' = entry_date
             /\ trade_count' = trade_count
             /\ trade_pnl' = trade_pnl
             /\ appended' = NoTrade ]_vars
    /\ [][ \/ trade_count' = trade_count /\ trade_pnl' = trade_pnl
           \/ /\ trade_count' = trade_count + 1
              /\ trade_pnl' = trade_pnl + appended'.pnl
              /\ event' = "exit" ]_vars

C19_Witness ==
    /\ event = "rejected" /\ trade_count >= 1
    /\ shares_held = 0 /\ ~position_open
    /\ cash = cash_before /\ cash # initial_cash

\* C20: the simulator never mutates its input.  When run_realistic_backtest
\* has returned, the bar series it was given has the columns it had before
\* the call.
C20_InputNotMutated ==
    pc = "done" => df_columns = LoadedColumns

-----------------------------------------------------------------------------
(* Properties of repeated runs, checked under SpecReplay *)

\* C21: deterministic replay.  A run on the series object an earlier run (of
\* the same or of another strategy) has processed sets the same entry and exit
\* flags and tests the same stops, targets and holding days, bar by bar, as
\* the run on the fresh series; the portfolio loop reads only these flags, the
\* bars and the initial cash, so the trade logs and the metrics are the same.
C21_DeterministicReplay ==
    /\ rp_entries_i = entries_i
    /\ rp_exits_i = exits_i
    /\ rp_chk = chk
    /\ rp_position_open = sig_position_open
    /\ rp_days_held = days_held

C21_Witness ==
    /\ i = 3 /\ strategy_type = "pullback"
    /\ rp_chk.checked /\ rp_chk.days_held = 2 /\ ~rp_exits_i
    /\ rp_col[0] = "R1" /\ rp_col[1] = "R3" /\ rp_col[2] = "R2"

-----------------------------------------------------------------------------
(* Properties of optimize.py, checked under SpecOptimize *)

\* C22: parallel runs are isolated.  Every multiple a trial's run reads is the
\* one of the parameter set assigned to that trial.
C22_ParallelIsolation ==
    \A t \in Trials :
        opt_read[t] # NoParams => opt_read[t] = opt_params[t]

-----------------------------------------------------------------------------
(* Properties of the live generators, checked under SpecStateless *)

\* C23: the live generator is stateless.  The records a generator returns for
\* two series that end in the same bar, with the same cash, are equal, whatever
\* the earlier bars and whichever call came first; a call changes neither the
\* series nor any state other than its result.
C23_LiveStateless ==
    /\ []((\A x \in Calls : st_rec[x] # NoSignal) => st_rec["a"] = st_rec["b"])
    /\ [][ \A x \in Calls :
             st_rec'[x] # st_rec[x]
               => /\ st_df' = st_df
                  /\ st_rec'[x] = LiveRecord(st_gen, st_df[x], initial_cash)
                  /\ \A y \in Calls \ {x} : st_rec'[y] = st_rec[y]
                  /\ UNCHANGED <<coreVars, replayVars, optVars, auxVars,
                                 st_gen>> ]_vars

C23_Witness ==
    /\ st_rec["a"] # NoSignal /\ st_rec["a"].signal = "BUY"
    /\ st_rec["b"] = st_rec["a"]
    /\ Len(st_df["a"]) = 1 /\ Len(st_df["b"]) = 2
    /\ st_df["b"][1] # st_df["b"][2]

-----------------------------------------------------------------------------
(* The retest and pullback rules, checked under SpecLive *)

\* the range of bar r touches level within pct percent
TouchesWithin(r, level, pct) ==
    LePct(r.low, level, 100 + pct) /\ GePct(r.high, level, 100 - pct)

\* the retest rule for the selected level on bar r
RetestRuleHolds(r, level) ==
    LET L == IF level = "R1" THEN r.R1 ELSE r.R2
    IN  /\ TouchesWithin(r, L, IF level = "R1" THEN 1 ELSE 2)
        /\ Gt(r.close, L)
        /\ Gt(r.close, r.ema20)
        /\ Lt(r.rsi14, 70)

\* C24: Resistance-Retest rule.  Whenever the retest strategy signals on a bar
\* and selects level L in {R1, R2} (the live generator's record, and the level
\* the simulator stores on its entry bar), that bar's range touches L within
\* the level's tolerance, close > L, close > EMA20 and RSI < 70.
C24_RetestRule ==
    /\ (live.strategy = "RESISTANCE_RETEST" /\ live.signal = "BUY")
          => RetestRuleHolds(latest, live.entry_level)
    /\ (strategy_type = "pullback" /\ i = 1 /\ entries_i)
          => RetestRuleHolds(row, triggered_level)

\* at least one per-level pullback trigger is true on bar r
AnyPullbackTrigger(r) ==
    LET st == check_pullback_conditions(r)
    IN  st.s1_pullback \/ st.s2_pullback \/ st.s3_pullback

\* C25: pullback rule.  On a last bar with defined S1, S2, S3 and ATR the
\* pullback strategy signals BUY if and only if at least one per-level trigger
\* is true, the S3 trigger being the one that uses close > EMA10 and RSI < 60.
C25_PullbackRule ==
    (/\ live.strategy = "PULLBACK"
     /\ NotNa(latest.S1) /\ NotNa(latest.S2) /\ NotNa(latest.S3)
     /\ NotNa(latest.atr14))
        => (live.signal = "BUY" <=> AnyPullbackTrigger(latest))

-----------------------------------------------------------------------------
(* Properties of the trade statistics, checked under SpecStats *)

\* indices of the trades of log with a profit, and with a loss
Winners(log) == {k \in DOMAIN log : log[k] > 0}

Losers(log) == {k \in DOMAIN log : log[k] < 0}

\* total pnl of the trades of log with index in S
RECURSIVE TotalPnl(_, _)
TotalPnl(log, S) ==
    IF S = {} THEN 0
    ELSE LET k == CHOOSE x \in S : TRUE
         IN  log[k] + TotalPnl(log, S \ {k})

\* the float f equals a / b, for b # 0
EqualsQuotient(f, a, b) == f.kind = "num" /\ f.den # 0 /\ f.num * b = a * f.den

\* C26: profit factor is total on every trade log: sum(winning pnl) /
\* |sum(losing pnl)| when there are losses, infinity when there are wins but
\* no losses, 0 when the log is empty, and never NaN; win_rate (in percent) is
\* the fraction of trades with pnl > 0.
C26_ProfitFactorTotal ==
    tl_stats.computed
      => LET pf == tl_stats.profit_factor
             W  == TotalPnl(tl_pnl, Winners(tl_pnl))
             L  == TotalPnl(tl_pnl, Losers(tl_pnl))
         IN  /\ Losers(tl_pnl) # {} => EqualsQuotient(pf, W, Abs(L))
             /\ (Winners(tl_pnl) # {} /\ Losers(tl_pnl) = {}) => pf = Inf
             /\ tl_pnl = <<>> => EqualsQuotient(pf, 0, 1)
             /\ pf.kind # "nan"
             /\ tl_pnl # <<>>
                   => EqualsQuotient(tl_stats.win_rate,
                                     100 * Cardinality(Winners(tl_pnl)),
                                     Len(tl_pnl))

C26_Witness ==
    /\ tl_stats.computed
    /\ Winners(tl_pnl) # {} /\ Losers(tl_pnl) # {}
    /\ \E k \in DOMAIN tl_pnl : tl_pnl[k] = 0
    /\ tl_stats.profit_factor.kind = "num"

-----------------------------------------------------------------------------
(* Properties of backtest.run, checked under SpecRun *)

\* C27: parameter overrides are transparent.  When the params file exists,
\* run applies its overrides to the requested strategy's parameters; when it
\* is missing, run still runs the backtest of the requested strategy with
\* that strategy's defaults; either way a result is returned.
C27_OverridesTransparent ==
    run_pc = "done"
      => LET c == StrategyClass(run_strategy)
         IN  /\ run_outcome = "returned"
             /\ strategy_cls = c
             /\ cls_attrs[c] = IF ~run_best.exists THEN ClassDefaults[c]
                               ELSE BestOver(run_best, ClassDefaults[c])

-----------------------------------------------------------------------------
(* Properties of live_signal.py beside the simulator, checked under
   SpecDuplicate *)

\* the simulator has processed the last bar as its first bar, with the rule
\* the live record st names
SimulatedSameRule(st) ==
    /\ i = 1
    /\ row = latest
    /\ live.strategy = st
    /\ strategy_type = (IF st = "BREAKOUT" THEN "breakout" ELSE "pullback")

\* C28: duplicated rule logic agrees.  check_breakout_signal and
\* check_pullback_signal of live_signal.py report BUY on a bar exactly when
\* the entry condition of generate_realistic_signals for 'breakout', resp.
\* 'pullback', is true on that bar, and then both select the same level.
C28_DuplicatedRulesAgree ==
    \A st \in {"BREAKOUT", "PULLBACK"} :
        SimulatedSameRule(st)
          => /\ live.signal = "BUY" <=> entries_i
             /\ live.signal = "BUY" <=> entry_condition(strategy_type, latest)
             /\ live.signal = "BUY" => live.entry_level = triggered_level

C28_Witness ==
    /\ SimulatedSameRule("PULLBACK")
    /\ live.signal = "BUY"
    /\ entries_i
    /\ live.entry_level = "R2"
    /\ triggered_level = "R2"
    /\ ~Gt(latest.close, latest.R2)

-----------------------------------------------------------------------------
(* Properties of fetch_data.py, checked under SpecFetch *)

\* a cache file that can be used: it exists and read_csv reads it
UsableCache == cache_file.exists /\ cache_file.readable

\* C29: Cache -> Live API -> Fallback.  Whenever the fresh-cache lookup
\* misses and the live API cannot supply data (asset id not found, empty
\* history, or an exception) while a cache file exists, load_ohlcv returns the
\* data of that file; it returns None only when no usable cache file exists.
C29_FallbackToCache ==
    (fetch_pc = "done" /\ cached_data = "None" /\ api # "ok")
      => /\ UsableCache => fetch_result = cache_file.data
         /\ fetch_result = "None" => ~UsableCache

\* the current time is in weekday trading hours
InTradingHours ==
    /\ now_wib.weekday \notin {5, 6}
    /\ now_wib.hour \in config.trading_start_hour .. (config.trading_end_hour - 1)

\* C30: cache freshness rule of load_from_cache.  Outside trading hours an
\* existing readable cache file is returned whatever its age; during weekday
\* trading hours it is returned only if its age is at most
\* cache_refresh_interval_minutes, otherwise None is returned.
C30_CacheFreshness ==
    [][ (fetch_pc = "start" /\ fetch_pc' # "start" /\ UsableCache)
          => IF InTradingHours
             THEN IF cache_file.age <= 60 * config.cache_refresh_interval_minutes
                  THEN cached_data' = cache_file.data
                  ELSE cached_data' = "None"
             ELSE cached_data' = cache_file.data ]_vars

C30_Witness ==
    /\ fetch_pc = "live"
    /\ UsableCache
    /\ InTradingHours
    /\ now_wib.hour = config.trading_end_hour - 1
    /\ cache_file.age = 60 * config.cache_refresh_interval_minutes + 1
    /\ cached_data = "None"

-----------------------------------------------------------------------------
(* The two passes of run_realistic_backtest side by side, checked under Spec *)

\* pass 1 is in a position that pass 2 never opened
PhantomPosition == sig_position_open /\ ~position_open

\* C31: the two passes stay in step.  While the simulator holds a position,
\* the signal pass has been in position since the same entry bar, and the
\* simulator closes the position exactly on the first exit flag after its
\* entry; an entry flag the simulator rejected leaves the signal pass in
\* position, and no bar is entered until that phantom position has exited.
C31_PassesInStep ==
    /\ [](position_open
            => /\ sig_position_open
               /\ entry_date = (i - 1) - days_held)
    /\ [][ (position_open /\ i' = i + 1)
             => (position_open' <=> ~exits_i') ]_vars
    /\ [][ (i' = i + 1 /\ event' = "rejected")
             => (entries_i' /\ sig_position_open' /\ ~position_open') ]_vars
    /\ [][ (PhantomPosition /\ i' = i + 1)
             => (~entries_i' /\ event' = "none" /\ ~position_open') ]_vars

C31_Witness ==
    /\ PhantomPosition
    /\ pc = "loop"
    /\ days_held >= 1
    /\ TriggerBar
    /\ event = "none"
    /\ trade_count >= 1

\* C32: generate_realistic_signals produces strictly alternating flags.  No
\* bar carries both flags; an entry flag follows no flag or an exit flag, an
\* exit flag follows an entry flag (so the first flag is an entry); and
\* count(entries) - count(exits) is 0 or 1, 1 exactly when the signal pass is
\* in position after the bar processed last.
C32_AlternatingFlags ==
    /\ [](~(entries_i /\ exits_i))
    /\ [](flag_balance \in {0, 1})
    /\ [](flag_balance = 1 <=> sig_position_open)
    /\ [][ (i' = i + 1 /\ entries_i') => last_flag \in {"none", "exit"} ]_vars
    /\ [][ (i' = i + 1 /\ exits_i') => last_flag = "entry" ]_vars

C32_Witness ==
    /\ entries_i
    /\ last_flag = "entry"
    /\ flag_balance = 1
    /\ trade_count >= 1
    /\ i = MaxBars

-----------------------------------------------------------------------------
(* The backward lookup of generate_realistic_signals, checked under
   SpecReplay *)

\* C33: backward index lookup is sound.  On every bar processed while the
\* signal pass is in position, i - days_held is the index of the entry bar of
\* the current position, the close and the triggered_level read there are the
\* ones written at this position's entry, whatever earlier positions or
\* earlier runs left in the column, and the column exists, so the default of
\* .get() is not used.
C33_BackwardLookup ==
    rp_chk.checked
      => /\ rp_lookup = rp_entry
         /\ rp_lookup.idx = (i - 1) - rp_chk.days_held
         /\ rp_lookup.idx \in ReplayIndex
         /\ rp_lookup.level # NoLevel
         /\ "triggered_level" \in df_columns

C33_Witness ==
    /\ rp_chk.checked
    /\ rp_chk.days_held = 1
    /\ rp_lookup.idx = 1
    /\ rp_lookup.level = "R1"
    /\ rp_col[0] = "R3"
    /\ rp_col[2] = "R2"

-----------------------------------------------------------------------------
(* Holding time and equity of run_realistic_backtest, checked under Spec *)

\* max_hold_days of the simulator's levels
MaxHoldDays(st, level) ==
    CASE st = "breakout" /\ level = "R1" -> 4
      [] st = "breakout" /\ level = "R2" -> 6
      [] st = "breakout" /\ level = "R3" -> 8
      [] st = "pullback" /\ level = "R1" -> 6
      [] st = "pullback" /\ level = "R2" -> 8

EquityAtClose == cash + shares_held * row.close

\* C35: equity is invariant under the bar's own trade.  After every bar,
\* entry and exit bars included, cash + shares_held x close of that bar equals
\* the value appended to portfolio_value before the trade; the reported final
\* value equals the last portfolio value; and a run without an entry ends
\* with final value = initial cash and an empty trade log.
C35_EquityInvariant ==
    /\ [](i >= 1 => pv_last = EquityAtClose)
    /\ [][ (i' = i + 1 /\ event' \in {"entry", "exit"})
             => cash' + shares_held' * row'.close
                  = cash + shares_held * row'.close ]_vars
    /\ [](pc = "done" => result.final_value = pv_last)
    /\ []((pc = "done" /\ entry_date = NaN)
            => (result.final_value = initial_cash /\ trade_count = 0))

C35_Witness ==
    /\ pc = "done"
    /\ event = "exit"
    /\ appended.pnl < 0
    /\ result.final_value = pv_last
    /\ result.final_value < initial_cash

-----------------------------------------------------------------------------
(* Strategy dispatch of run_realistic_backtest, checked under SpecDispatch *)

\* the second run sets the flags, tests the exits and would price an entry on
\* the bar processed last exactly as the first run does
SameRun ==
    /\ rp_entries_i = entries_i
    /\ rp_exits_i = exits_i
    /\ rp_chk = chk
    /\ rp_position_open = sig_position_open
    /\ rp_days_held = days_held
    /\ i >= 1 => EntryParams(Lower(rp_strategy_name), row)
                   = EntryParams(strategy_type, row)

\* C36: strategy dispatch is by lower-cased name with a breakout default.  A
\* run under any spelling of 'pullback' follows the R1/R2 retest rules, and a
\* run under every other name, 'Resistance_Retest' included, follows the
\* breakout rules: on the same bars it has the entries, exits and entry
\* parameters of the run named 'Breakout'.
C36_DispatchDefault ==
    /\ (rp_strategy_name \in {"Pullback", "PULLBACK", "pullback"}
          /\ strategy_type = "pullback") => SameRun
    /\ (rp_strategy_name \notin {"Pullback", "PULLBACK", "pullback"}
          /\ strategy_type = "breakout") => SameRun

C36_Witness ==
    /\ rp_strategy_name = "Resistance_Retest"
    /\ strategy_type = "breakout"
    /\ rp_chk.checked /\ rp_exits_i /\ exits_i
    /\ rp_entry.level = "R3"
    /\ ~entry_condition("pullback", row)

-----------------------------------------------------------------------------
(* The selected level at its point of use, checked under SpecLive *)

\* the trigger condition of the level a generator names, on bar r
LiveLevelTriggered(strategy, level, r) ==
    CASE strategy = "BREAKOUT" ->
           LET st == check_breakout_conditions(r)
           IN  CASE level = "R1" -> st.r1_breakout
                 [] level = "R2" -> st.r2_breakout
                 [] level = "R3" -> st.r3_breakout
                 [] OTHER -> FALSE
      [] strategy = "RESISTANCE_RETEST" ->
           LET st == check_resistance_retest_conditions(r)
           IN  CASE level = "R1" -> st.r1_triggered
                 [] level = "R2" -> st.r2_triggered
                 [] OTHER -> FALSE
      [] strategy = "PULLBACK" ->
           LET st == check_pullback_conditions(r)
           IN  CASE level = "S1" -> st.s1_pullback
                 [] level = "S2" -> st.s2_pullback
                 [] level = "S3" -> st.s3_pullback
                 [] OTHER -> FALSE
      [] OTHER -> FALSE

\* the trigger condition the simulator tests for the level, on bar r
SimLevelTriggered(st, level, r) ==
    IF st = "pullback"
    THEN CASE level = "R1" -> r1_triggered(r)
           [] level = "R2" -> r2_triggered(r)
           [] OTHER -> FALSE
    ELSE CASE level = "R1" -> r1_breakout(r)
           [] level = "R2" -> r2_breakout(r)
           [] level = "R3" -> r3_breakout(r)
           [] OTHER -> FALSE

\* C37: the selected level is a triggered level at its point of use.  Whenever
\* a live generator returns BUY, the entry_level of the record is a level
\* whose own trigger condition is true on the latest bar, and whenever the
\* simulator enters, its entry_level is a level whose trigger condition is
\* true on the entry bar: the else default (R1, S3, R2) is never returned for
\* a bar on which that level did not trigger.
C37_SelectedLevelTriggered ==
    /\ live.signal = "BUY"
          => LiveLevelTriggered(live.strategy, live.entry_level, latest)
    /\ event = "entry" => SimLevelTriggered(strategy_type, entry_level, row)

\* each else default is returned: R1 by the breakout generator, R2 by the
\* retest generator with both levels triggered, S3 by the pullback generator,
\* or the simulator enters on its default
C37_Witness ==
    \/ /\ live.signal = "BUY" /\ live.strategy = "BREAKOUT"
       /\ live.entry_level = "R1"
       /\ event = "entry" /\ strategy_type = "pullback" /\ entry_level = "R2"
       /\ r1_triggered(row)
    \/ /\ live.signal = "BUY" /\ live.strategy = "RESISTANCE_RETEST"
       /\ live.entry_level = "R2"
       /\ check_resistance_retest_conditions(latest).r1_triggered
       /\ event = "entry" /\ strategy_type = "breakout" /\ entry_level = "R1"

-----------------------------------------------------------------------------
(* The risk bound of an entry, checked under SpecLive *)

\* shares x |entry - stop|, NaN when the entry or the stop is NaN
AmountAtRisk(shares, entry, stop) ==
    IF IsNa(entry) \/ IsNa(stop) THEN NaN ELSE shares * Abs(entry - stop)

\* shares is a non-negative integer and the amount at risk is <= 2% of c
RiskBounded(shares, entry, stop, c) ==
    /\ shares \in Nat
    /\ NotNa(AmountAtRisk(shares, entry, stop))
    /\ 100 * AmountAtRisk(shares, entry, stop) <= 2 * c

\* C38: risk bound.  For every simulator entry and every live BUY record with
\* positive cash, the amount at risk shares x |entry - stop| is at most 2% of
\* the cash available at that moment, and shares is a non-negative integer.
C38_RiskBound ==
    /\ (live.signal = "BUY" /\ initial_cash > 0)
          => RiskBounded(live.shares, live.entry_price, live.stop_loss,
                         initial_cash)
    /\ event = "entry"
          => RiskBounded(shares_held, entry_price, sl_price, cash_before)

-----------------------------------------------------------------------------
(* The framework strategies of backtest.py, checked under SpecFramework *)

\* C39: framework strategies (Breakout, Pullback, ResistanceRetest).  Across
\* any sequence of next() calls and any order-fill behaviour, buy is issued
\* only on a bar where no position is open; whenever a position is open,
\* stop_loss, take_profit and max_days are set and are those of the signal
\* whose order was filled; and position.close() is requested exactly on the
\* bar where the count of bars observed in position since that fill reaches
\* max_days.
C39_FrameworkStrategy ==
    /\ fw_event = "buy" => ~fw_position.open
    /\ fw_position.open =>
          /\ fw_self.stop_loss # None /\ fw_self.stop_loss = fw_position.sl
          /\ fw_self.take_profit # None /\ fw_self.take_profit = fw_position.tp
          /\ fw_self.max_days # None
          /\ fw_self.max_days = fw_position.max_days
          /\ fw_event # "raised"
          /\ (fw_event = "close" <=> fw_seen = fw_self.max_days)
    /\ fw_event = "close" => fw_position.open

\* a position opened after the strategy had held and lost an earlier one is
\* closed on its tenth bar
C39_Witness ==
    /\ fw_cls = "Pullback"
    /\ fw_position.open /\ fw_position.max_days = 10
    /\ fw_seen = 10
    /\ fw_event = "close"
    /\ fw_closing

====
